---------------------------- MODULE Spec2Model ----------------------------
(***************************************************************************)
(* A model of the MobilityTwin traffic simulation server.                  *)
(*                                                                         *)
(*   - RealTrafficSimulation (src/server/services/tomtom-traffic.ts,       *)
(*     lines 222-924): road graph, marker impacts, demand and trip         *)
(*     generation, the microsimulation loop and updateVehicle.             *)
(*   - GET /api/simulate/live (same file, lines 1951-2045): the SSE        *)
(*     handler that drives one simulation and emits tagged events, and     *)
(*     the subscriber that reads them.                                     *)
(*   - POST /api/simulate (same file, lines 1837-1874) and                 *)
(*     runTrafficSimulation (src/server/services/simulation.ts).           *)
(*                                                                         *)
(* Numbers.  The code computes in IEEE doubles; the model computes in      *)
(* fixed point, rounding down:                                             *)
(*     speed                 in 0.1 km/h           (Kmh(30) = 300)         *)
(*     distance, length      in 1/36 m             (Metres(1) = 36)        *)
(*     currentEdgeProgress   in 1/ProgressScale    (0.95 = MaxProgress)    *)
(* so that distanceThisStep = speed * timeStep / 3.6 (metres) is exactly   *)
(* speed * timeStep in model units.  Positions of roads, markers and       *)
(* traffic flows are metres along one meridian, where the haversine        *)
(* distance of two points is the absolute difference of their positions.   *)
(***************************************************************************)
EXTENDS Integers, Sequences, FiniteSets, TLC

VARIABLES
    pc,                  \* position of the request handler in its code
    markers,             \* storage.getMarkers(): the stored markers, in order
    duration,            \* req.query.duration, minutes
    world,               \* what the three data providers answer in this run
    pickMode,            \* how much of Math.random's range the run explores
    events,              \* the SSE frames written by send(), in order
    resEnded,            \* res.end() has been called
    network,             \* this.network.roads
    trafficData,         \* this.trafficData
    populationData,      \* this.populationData
    edges,               \* this.edges (edgeMap, edgesFromMap index the same objects)
    vehicles,            \* this.vehicles
    routeHeap,           \* the route arrays (string[]) allocated so far
    routeCache,          \* this.routeCache: "origin->dest" -> route array
    constructionLogs,    \* this.constructionLogs
    affectedEdges,       \* applyMarkerImpacts' local affectedEdges
    affectedEdgesSet,    \* this.affectedEdgesSet
    processedFacilities, \* applyMarkerImpacts' local processedFacilities
    liveDataCallback,    \* this.liveDataCallback is set
    simulationTime,      \* this.simulationTime
    loop,                \* loop counters and locals of the running method
    endpoint,            \* the entry point of this run
    subscribed,          \* the subscriber's connection is open
    delivered,           \* how many of the written frames the subscriber has read
    providerCalls,       \* provider calls made by runTrafficSimulation
    metrics,             \* what runTrafficSimulation returned
    httpResponse,        \* the answer of POST /api/simulate
    savedResults,        \* storage.saveSimulationResult calls
    cache,               \* road-cache.ts' cache: key -> [timestamp, data]
    now,                 \* Date.now(), in minutes
    fetches,             \* fetchFromOSM calls issued so far
    callers,             \* the extractRoadNetworkCached calls made so far
    peerSim              \* another run's simulation on the same NetworkData

vars == <<pc, markers, duration, world, pickMode, events, resEnded, network,
          trafficData, populationData, edges, vehicles, routeHeap, routeCache,
          constructionLogs, affectedEdges, affectedEdgesSet,
          processedFacilities, liveDataCallback, simulationTime, loop,
          endpoint, subscribed, delivered, providerCalls, metrics,
          httpResponse, savedResults, cache, now, fetches, callers, peerSim>>

-----------------------------------------------------------------------------
(* Arithmetic helpers *)

Min(a, b) == IF a <= b THEN a ELSE b
Max(a, b) == IF a >= b THEN a ELSE b
Abs(a) == IF a >= 0 THEN a ELSE -a

\* Math.round(n / d) for n >= 0, d > 0
RoundDiv(n, d) == (2 * n + d) \div (2 * d)

Kmh(s) == 10 * s
Metres(m) == 36 * m

RECURSIVE SumSeq(_)
SumSeq(s) ==
    IF s = <<>> THEN 0
    ELSE IF Len(s) = 1 THEN s[1]
    ELSE LET half == Len(s) \div 2
         IN SumSeq(SubSeq(s, 1, half)) + SumSeq(SubSeq(s, half + 1, Len(s)))

SeqOfSet(S) ==
    LET RECURSIVE Build(_)
        Build(T) == IF T = {} THEN <<>>
                    ELSE LET m == CHOOSE x \in T : \A y \in T : x <= y
                         IN <<m>> \o Build(T \ {m})
    IN Build(S)

-----------------------------------------------------------------------------
(* Program constants *)

MAX_VEHICLES == 500          \* generateVehicleDemand: Math.min(rawDemand, 500)
FACILITY_CAP == 100          \* calculateFacilityTrafficGeneration
STEP_THRESHOLD == 100        \* runMicrosimulation: currentActiveVehicles > 100
MAX_STEPS == 200             \* findSimpleRoute
LIVE_SAMPLE == 50            \* getActiveVehiclePositions: slice(0, 50)
MAX_SEGMENTS == 20           \* getCongestionSegments: slice(0, 20)

\* currentEdgeProgress is a fraction of the edge; one unit is 1/ProgressScale
ProgressScale == 100 * 100
\* Math.min(0.95, ...)
MaxProgress == (95 * ProgressScale) \div 100

-----------------------------------------------------------------------------
(* Bounds of the model *)

\* the marker store holds at most this many markers
MaxMarkers == 2
\* the longest simulated duration, in minutes
MaxDuration == 5
\* recursion depth at which findSimpleRoute's swapped retry exhausts the stack
MaxRetryDepth == 3

-----------------------------------------------------------------------------
(* The inputs: what the marker store and the providers can hold *)

\* a stored marker: its type and its position (metres along the meridian)
MarkerChoices ==
    { [type |-> "construction", x |-> 100],
      [type |-> "construction", x |-> 500],
      [type |-> "facility",     x |-> 100],
      [type |-> "facility",     x |-> 1100] }

MarkerLists == UNION { [1..n -> MarkerChoices] : n \in 0..MaxMarkers }

Durations == {1, MaxDuration}

\* OSM roads: id, first and last node, highway tag, lanes tag, number of
\* geometry points, position of geometry[0], polyline length in metres.
\* RoadsA is a ring of three motorway sections and a way without geometry.
RoadsA ==
    << [id |-> 1, from |-> 1, to |-> 2, highway |-> "motorway", lanes |-> 1,
        points |-> 2, x |-> 0,    len |-> 2100],
       [id |-> 2, from |-> 2, to |-> 3, highway |-> "motorway", lanes |-> 1,
        points |-> 2, x |-> 1000, len |-> 2100],
       [id |-> 3, from |-> 3, to |-> 1, highway |-> "motorway", lanes |-> 1,
        points |-> 2, x |-> 2000, len |-> 2100],
       [id |-> 4, from |-> 1, to |-> 1, highway |-> "path_stub", lanes |-> 1,
        points |-> 1, x |-> 50,   len |-> 0] >>

\* RoadsC is the same ring with a 20 m link between the two long sections
RoadsC ==
    << [id |-> 1, from |-> 1, to |-> 2, highway |-> "motorway", lanes |-> 1,
        points |-> 2, x |-> 0,    len |-> 2100],
       [id |-> 2, from |-> 2, to |-> 3, highway |-> "motorway_link", lanes |-> 1,
        points |-> 2, x |-> 1000, len |-> 20],
       [id |-> 3, from |-> 3, to |-> 1, highway |-> "motorway", lanes |-> 2,
        points |-> 2, x |-> 2000, len |-> 2100] >>

\* RoadsB is two residential streets that start 300 m apart
RoadsB ==
    << [id |-> 1, from |-> 1, to |-> 2, highway |-> "residential", lanes |-> 1,
        points |-> 2, x |-> 0,   len |-> 300],
       [id |-> 2, from |-> 2, to |-> 1, highway |-> "residential", lanes |-> 2,
        points |-> 2, x |-> 300, len |-> 300] >>

\* two short motorway stubs 2 km apart that share no node: every route
\* leaves an edge by the dead-end escape of findSimpleRoute
RoadsD ==
    << [id |-> 1, from |-> 1, to |-> 2, highway |-> "motorway", lanes |-> 1,
        points |-> 2, x |-> 0,    len |-> 100],
       [id |-> 2, from |-> 3, to |-> 4, highway |-> "motorway", lanes |-> 1,
        points |-> 2, x |-> 2000, len |-> 100] >>

\* RoadsE is RoadsD with stubs of 10 m: 200 edges are shorter than 4 km
RoadsE ==
    << [id |-> 1, from |-> 1, to |-> 2, highway |-> "motorway", lanes |-> 1,
        points |-> 2, x |-> 0,    len |-> 10],
       [id |-> 2, from |-> 3, to |-> 4, highway |-> "motorway", lanes |-> 1,
        points |-> 2, x |-> 2000, len |-> 10] >>

\* RoadsF is RoadsD with stubs of 25 m: 200 edges are 5 km long, more than
\* the shortest and less than the longest minimum length a call can draw
RoadsF ==
    << [id |-> 1, from |-> 1, to |-> 2, highway |-> "motorway", lanes |-> 1,
        points |-> 2, x |-> 0,    len |-> 25],
       [id |-> 2, from |-> 3, to |-> 4, highway |-> "motorway", lanes |-> 1,
        points |-> 2, x |-> 2000, len |-> 25] >>

\* RoadsG is the ring of RoadsA with three, one and two lanes
RoadsG ==
    << [id |-> 1, from |-> 1, to |-> 2, highway |-> "motorway", lanes |-> 3,
        points |-> 2, x |-> 0,    len |-> 2100],
       [id |-> 2, from |-> 2, to |-> 3, highway |-> "motorway", lanes |-> 1,
        points |-> 2, x |-> 1000, len |-> 2100],
       [id |-> 3, from |-> 3, to |-> 1, highway |-> "motorway", lanes |-> 2,
        points |-> 2, x |-> 2000, len |-> 2100] >>

\* extractRoadNetwork: the roads it returns; "fail" is handled by the caller
NetworkAnswer(kind) ==
    CASE kind = "netA" -> RoadsA
      [] kind = "netD" -> RoadsD
      [] kind = "netE" -> RoadsE
      [] kind = "netF" -> RoadsF
      [] kind = "netG" -> RoadsG
      [] kind = "netB" -> RoadsB
      [] kind = "netC" -> RoadsC
      [] OTHER -> <<>>

\* getTrafficData: the TomTom answer, or generateFallbackTrafficData
TrafficAnswer(kind) ==
    CASE kind = "fallback" ->
           [flows |-> << [currentSpeed |-> Kmh(35), x |-> 100] >>,
            congestionLevel |-> "MEDIUM"]
      [] kind = "jam" ->
           [flows |-> << [currentSpeed |-> 0, x |-> 100] >>,
            congestionLevel |-> "SEVERE"]
      [] OTHER ->
           [flows |-> <<>>, congestionLevel |-> "LOW"]

\* getPopulationData: estimatedVehicles, peakHourFactor (percent), density
PopulationAnswer(kind) ==
    CASE kind = "small" ->
           [estimatedVehicles |-> 25, peakHourFactor |-> 8, density |-> 10]
      [] kind = "one" ->
           [estimatedVehicles |-> 13, peakHourFactor |-> 8, density |-> 5]
      [] kind = "large" ->
           [estimatedVehicles |-> 10000, peakHourFactor |-> 12, density |-> 1000]
      [] kind = "crowd" ->
           [estimatedVehicles |-> 1263, peakHourFactor |-> 8, density |-> 5]
      [] kind = "sample" ->
           [estimatedVehicles |-> 650, peakHourFactor |-> 8, density |-> 5]
      [] OTHER ->
           [estimatedVehicles |-> 0, peakHourFactor |-> 8, density |-> 0]

\* Math.random() * 2400 and Math.random() * 3600, seconds
DepartTimes == {0, 15}
\* 0.6 + Math.random() * 0.4, percent
SpeedFactors == {80}
\* 4000 + Math.random() * 4000, metres
MinMetersChoices == {Metres(4000), Metres(7000)}

\* The draws of Math.random a run explores when it builds a trip: all of S,
\* or one element of it
Pick(S) == IF pickMode # "any" /\ S # {} THEN {CHOOSE x \in S : TRUE} ELSE S

\* The draws of the departure time of trip i: in the "stagger" runs the
\* first trip draws the late departure and every other trip the early one
PickDepart(i) ==
    IF pickMode = "stagger"
    THEN {IF i = 0 THEN 15 ELSE 0}
    ELSE Pick(DepartTimes)

-----------------------------------------------------------------------------
(* osm-network.ts *)

getRoadCapacity(highway) ==
    CASE highway = "motorway" -> 2000
      [] highway = "trunk" -> 1500
      [] highway = "primary" -> 1200
      [] highway = "secondary" -> 800
      [] highway = "tertiary" -> 600
      [] highway = "residential" -> 400
      [] highway = "unclassified" -> 300
      [] OTHER -> 300

getFreeFlowSpeed(highway) ==
    CASE highway = "motorway" -> 110
      [] highway = "trunk" -> 90
      [] highway = "primary" -> 70
      [] highway = "secondary" -> 60
      [] highway = "tertiary" -> 50
      [] highway = "residential" -> 30
      [] highway = "unclassified" -> 40
      [] OTHER -> 40

-----------------------------------------------------------------------------
(* RealTrafficSimulation: the road graph *)

haversineDistance(x1, x2) == Abs(x2 - x1)

\* Fault variant of buildRoadNetwork: the SUMOEdge objects are kept on the
\* NetworkData object, and every simulation built from it gets the same ones
buildRoadNetworkShared(roads) ==
    IF peerSim.edges # <<>> THEN peerSim.edges
    ELSE IF edges # <<>> THEN edges
    ELSE LET drawn == SelectSeq(roads, LAMBDA road : road.points >= 2)
         IN [k \in 1..Len(drawn) |->
               [id |-> drawn[k].id, from |-> drawn[k].from, to |-> drawn[k].to,
                lanes |-> drawn[k].lanes,
                speed |-> Kmh(getFreeFlowSpeed(drawn[k].highway)),
                length |-> Metres(drawn[k].len),
                capacity |-> getRoadCapacity(drawn[k].highway) * drawn[k].lanes]]

\* one SUMOEdge per road with at least two geometry points
buildRoadNetwork(roads) ==
    LET RECURSIVE Build(_)
        Build(rs) ==
            IF rs = <<>> THEN <<>>
            ELSE LET road == Head(rs)
                 IN IF road.points < 2 THEN Build(Tail(rs))
                    ELSE << [id |-> road.id, from |-> road.from, to |-> road.to,
                             lanes |-> road.lanes,
                             speed |-> Kmh(getFreeFlowSpeed(road.highway)),
                             length |-> Metres(road.len),
                             capacity |-> getRoadCapacity(road.highway) * road.lanes] >>
                         \o Build(Tail(rs))
    IN Build(roads)

EdgeIds == { edges[i].id : i \in 1..Len(edges) }
\* this.edgeMap.get(id)
EdgeOf(id) == edges[CHOOSE i \in 1..Len(edges) : edges[i].id = id]
\* this.network.roads.find(r => r.id === id).geometry[0]
RoadStart(id) == network[CHOOSE i \in 1..Len(network) : network[i].id = id].x

\* edges whose road starts within radius metres of the point, in edge order
findNearbyEdges(x, radius) ==
    { id \in EdgeIds : haversineDistance(x, RoadStart(id)) <= radius }

\* the edges pickFarEdge's do-while loop can leave with; none: it spins forever
pickFarEdge(origin, minDistance) ==
    { id \in EdgeIds : id # origin
         /\ ~(haversineDistance(RoadStart(origin), RoadStart(id)) < minDistance) }

-----------------------------------------------------------------------------
(* RealTrafficSimulation: routes *)

Last(s) == s[Len(s)]

\* One evaluation of the while loop of findSimpleRoute on a walk: the loop
\* is left (the walk stays as it is), or one edge is appended, or the
\* dead-end escape calls pickFarEdge and no edge qualifies (hang).
WalkStep(w, minMeters) ==
    IF w.hang \/ ~(w.cumLength < minMeters /\ Len(w.route) < MAX_STEPS)
    THEN { w }
    ELSE LET nextEdges == { id \in EdgeIds : EdgeOf(id).from = w.current /\ id \notin w.visited }
             jumps == pickFarEdge(Last(w.route), 1000)
             cands == IF nextEdges = {} THEN jumps ELSE nextEdges
         IN IF cands = {}
            THEN { [w EXCEPT !.hang = TRUE] }
            ELSE { [hang |-> FALSE, route |-> Append(w.route, id),
                    visited |-> w.visited \cup {id}, current |-> EdgeOf(id).to,
                    cumLength |-> w.cumLength + EdgeOf(id).length] : id \in cands }

WalkOver(w, minMeters) == WalkStep(w, minMeters) = { w }

\* n evaluations of the loop on every walk of ws
RECURSIVE WalkIter(_, _, _)
WalkIter(ws, n, minMeters) ==
    IF n = 0 \/ \A w \in ws : WalkOver(w, minMeters)
    THEN ws
    ELSE IF n = 1
    THEN UNION { WalkStep(w, minMeters) : w \in ws }
    ELSE WalkIter(WalkIter(ws, n \div 2, minMeters), n - (n \div 2), minMeters)

\* the while loop of findSimpleRoute: every walk the random draws allow.
\* A result is the route, the cursor node and the cumulative length, or
\* hang when a dead-end escape calls pickFarEdge and no edge qualifies.
RouteWalk(route, visited, current, cumLength, minMeters) ==
    { [hang |-> w.hang, route |-> w.route, current |-> w.current, cumLength |-> w.cumLength] :
        w \in WalkIter({ [hang |-> FALSE, route |-> route, visited |-> visited,
                          current |-> current, cumLength |-> cumLength] },
                       MAX_STEPS, minMeters) }

\* findSimpleRoute(originEdgeId, destEdgeId): every outcome the draws allow.
\*   cached   : the array held by routeCache under "origin->dest" (ref)
\*   new      : a fresh array, stored in routeCache under key
\*   hang     : pickFarEdge never returns
\*   overflow : the swapped retry recursed until the stack was exhausted
\* calls is the number of nested invocations the outcome was reached with.
RECURSIVE findSimpleRoute(_, _, _)
findSimpleRoute(originEdgeId, destEdgeId, depth) ==
    LET cacheKey == <<originEdgeId, destEdgeId>>
        NoRoute == <<>>
    IN IF cacheKey \in DOMAIN routeCache
       THEN { [kind |-> "cached", ref |-> routeCache[cacheKey], route |-> NoRoute,
                key |-> cacheKey, calls |-> depth + 1] }
       ELSE IF depth >= MaxRetryDepth
       THEN { [kind |-> "overflow", ref |-> 0, route |-> NoRoute, key |-> cacheKey,
                calls |-> depth + 1] }
       ELSE UNION {
              UNION {
                IF w.hang
                THEN { [kind |-> "hang", ref |-> 0, route |-> NoRoute, key |-> cacheKey,
                        calls |-> depth + 1] }
                ELSE LET push == w.current # EdgeOf(destEdgeId).from
                         route == IF push THEN Append(w.route, destEdgeId) ELSE w.route
                         cumLength == IF push THEN w.cumLength + EdgeOf(destEdgeId).length
                                      ELSE w.cumLength
                     IN IF cumLength < minMeters
                        THEN findSimpleRoute(destEdgeId, originEdgeId, depth + 1)
                        ELSE { [kind |-> "new", ref |-> 0, route |-> route, key |-> cacheKey,
                                calls |-> depth + 1] }
                : w \in RouteWalk(<<originEdgeId>>, {originEdgeId}, EdgeOf(originEdgeId).to,
                                  EdgeOf(originEdgeId).length, minMeters) }
              : minMeters \in Pick(MinMetersChoices) }

\* sum of edge.length over the route (every edge of a route has geometry)
RouteLength(route) == SumSeq([i \in 1..Len(route) |-> EdgeOf(route[i]).length])

-----------------------------------------------------------------------------
(* RealTrafficSimulation: vehicles *)

\* vehicle.route: the array the vehicle's route field points to
RouteOf(v) == routeHeap[v.route]

\* !vehicle.arrivalTime: undefined and 0 are both falsy
NoArrivalTime(v) == v.arrivalTime = {} \/ v.arrivalTime = {0}

\* vehicle.departTime <= t && !vehicle.arrivalTime
IsActive(v, t) == v.departTime <= t /\ NoArrivalTime(v)

NewVehicle(prefix, i, ref, departTime, speed, totalRouteLength) ==
    [id |-> [prefix |-> prefix, n |-> i],
     route |-> ref,
     departTime |-> departTime,
     arrivalTime |-> {},
     speed |-> speed,
     emissions |-> 0,
     distanceTraveled |-> 0,
     currentEdgeProgress |-> 0,
     totalRouteLength |-> totalRouteLength]

\* route[0] === edgeId for the array behind a vehicle
HeadIs(heap, v, edgeId) == heap[v.route] # <<>> /\ heap[v.route][1] = edgeId

\* active vehicles whose current edge is edgeId
CountOnEdge(vs, heap, edgeId, t) ==
    Cardinality({ i \in 1..Len(vs) : HeadIs(heap, vs[i], edgeId) /\ IsActive(vs[i], t) })

\* this.trafficData.flows.find(f => this.isNearEdge(f.coordinates, edge))
isNearEdge(flow, edgeId) == haversineDistance(flow.x, RoadStart(edgeId)) < 1000

NearFlows(edgeId) ==
    { i \in 1..Len(trafficData.flows) : isNearEdge(trafficData.flows[i], edgeId) }

\* Fault variant of UtilizationAbove: Math.min in the place of Math.max
UtilizationAboveMin(n, capacity, num, den) ==
    IF capacity >= 3600 THEN n * den > num
    ELSE n * 3600 * den > num * capacity

\* n / Math.max(1, capacity / 3600) > num / den
UtilizationAbove(n, capacity, num, den) ==
    IF capacity <= 3600 THEN n * den > num
    ELSE n * 3600 * den > num * capacity

\* Math.max(0.1, 1 - (utilization - 0.7) * 0.5), in thousandths
CongestionFactor(n, capacity) ==
    LET halfUtil == IF capacity <= 3600 THEN 500 * n
                    ELSE (500 * n * 3600) \div capacity
    IN Max(100, 1350 - halfUtil)

\* targetSpeed of updateVehicle
TargetSpeed(edge, n) ==
    LET near == NearFlows(edge.id)
        flowed == IF near = {} THEN edge.speed
                  ELSE Min(edge.speed,
                           trafficData.flows[CHOOSE i \in near : \A j \in near : i <= j].currentSpeed)
    IN IF UtilizationAbove(n, edge.capacity, 7, 10)
       THEN (flowed * CongestionFactor(n, edge.capacity)) \div 1000
       ELSE flowed

\* Fault variant of SmoothedSpeed: the anti-stall snap left out
SmoothedSpeedNoSnap(speed, targetSpeed) ==
    Max(0, speed + ((targetSpeed - speed) \div 5))

\* speed smoothing and the anti-stall snap
SmoothedSpeed(speed, targetSpeed) ==
    LET s == Max(0, speed + ((targetSpeed - speed) \div 5))
    IN IF targetSpeed > 0 /\ s < Kmh(5)
       THEN Max(Kmh(5), (targetSpeed * 3) \div 10)
       ELSE s

\* Fault variants of the two progress formulas: the 0.95 ceiling left out
CarryProgressNoCap(remainingDistance, nextLength) ==
    (remainingDistance * ProgressScale) \div nextLength

StayProgressNoCap(progress, distanceThisStep, length) ==
    progress + (distanceThisStep * ProgressScale) \div length

\* Math.min(0.95, remainingDistance / nextEdge.length)
CarryProgress(remainingDistance, nextLength) ==
    Min(MaxProgress, (remainingDistance * ProgressScale) \div nextLength)

\* Math.min(0.95, currentEdgeProgress + distanceThisStep / edge.length)
StayProgress(progress, distanceThisStep, length) ==
    Min(MaxProgress, progress + (distanceThisStep * ProgressScale) \div length)

\* Fault variant of Shift: the edge the step's distance runs over is
\* removed as well
ShiftTwo(route) == IF Len(route) >= 2 THEN Tail(Tail(route)) ELSE Tail(route)

\* vehicle.route.shift(): the array without its head
Shift(route) == Tail(route)

\* updateVehicle(vehicle, currentTime, timeStep) for vehicles[i]: the new
\* vehicle record and the new route heap (route.shift() acts on the array)
updateVehicle(vs, heap, i, currentTime, timeStep) ==
    LET vehicle == vs[i]
        route == heap[vehicle.route]
    IN IF route = <<>> \/ Head(route) \notin EdgeIds
       THEN [vehicle |-> vehicle, heap |-> heap]
       ELSE
       LET edge == EdgeOf(Head(route))
           edgeVehicles == CountOnEdge(vs, heap, edge.id, currentTime)
           targetSpeed == TargetSpeed(edge, edgeVehicles)
           speed == SmoothedSpeed(vehicle.speed, targetSpeed)
           moved == [vehicle EXCEPT !.speed = speed]
           distanceThisStep == speed * timeStep
           remainingEdgeDistance ==
               (edge.length * (ProgressScale - vehicle.currentEdgeProgress)) \div ProgressScale
       IN IF ~(speed > 0 /\ edge.length > 0)
          THEN [vehicle |-> moved, heap |-> heap]
          ELSE IF distanceThisStep >= remainingEdgeDistance
          THEN LET rest == Shift(route)
                   remainingDistance == distanceThisStep - remainingEdgeDistance
                   shifted == [moved EXCEPT
                                 !.distanceTraveled = @ + remainingEdgeDistance,
                                 !.currentEdgeProgress = 0]
               IN [heap |-> [heap EXCEPT ![vehicle.route] = rest],
                   vehicle |->
                     IF rest = <<>>
                     THEN [shifted EXCEPT !.arrivalTime = {currentTime}]
                     ELSE IF Head(rest) \in EdgeIds /\ EdgeOf(Head(rest)).length > 0
                     THEN [shifted EXCEPT !.currentEdgeProgress =
                              CarryProgress(remainingDistance, EdgeOf(Head(rest)).length)]
                     ELSE shifted]
          ELSE [heap |-> heap,
                vehicle |-> [moved EXCEPT
                    !.distanceTraveled = @ + distanceThisStep,
                    !.currentEdgeProgress =
                        StayProgress(@, distanceThisStep, edge.length)]]

\* calculateVehicleEmissions, in units of 1/36000000 kg
calculateVehicleEmissions(v) ==
    IF v.speed <= 0 THEN 0
    ELSE LET emissionFactor == IF v.speed < Kmh(20) THEN 192
                               ELSE IF v.speed < Kmh(40) THEN 144
                               ELSE IF v.speed > Kmh(80) THEN 156
                               ELSE 120
         IN emissionFactor * v.speed

\* utilization = n / (capacity / 3600) > 0.7 of calculateCongestionLength
CongestedForLength(n, capacity) == n * 3600 * 10 > 7 * capacity

\* calculateCongestionLength
calculateCongestionLength(vs, heap, t) ==
    SumSeq([k \in 1..Len(edges) |->
        IF CongestedForLength(CountOnEdge(vs, heap, edges[k].id, t), edges[k].capacity)
        THEN edges[k].length ELSE 0])

\* getCongestionSegments: the edges that get a level, at most 20 of them
getCongestionSegments(vs, heap, t) ==
    Min(MAX_SEGMENTS,
        Cardinality({ k \in 1..Len(edges) :
            UtilizationAbove(CountOnEdge(vs, heap, edges[k].id, t), edges[k].capacity, 3, 10) }))

\* getActiveVehiclePositions: ids of the first 50 active vehicles
getActiveVehiclePositions(vs, t) ==
    LET RECURSIVE Take(_, _)
        Take(k, got) ==
            IF k > Len(vs) \/ Len(got) >= LIVE_SAMPLE THEN got
            ELSE Take(k + 1, IF IsActive(vs[k], t) THEN Append(got, vs[k].id) ELSE got)
    IN Take(1, <<>>)

-----------------------------------------------------------------------------
(* RealTrafficSimulation: marker impacts and demand *)

\* edge.speed = Math.max(5, originalSpeed * 0.4), or 5 when the road is closed
ReducedSpeed(originalSpeed, closed) ==
    IF closed THEN Kmh(5) ELSE Max(Kmh(5), (originalSpeed * 4) \div 10)

\* Fault variant of ReducedCapacity: a closed road keeps no capacity at all
ReducedCapacityClosedZero(capacity, closed) ==
    IF closed THEN 0 ELSE Max(50, (capacity * 6) \div 10)

\* edge.capacity = Math.max(50, capacity * 0.6), or 10 when the road is closed
ReducedCapacity(capacity, closed) ==
    IF closed THEN 10 ELSE Max(50, (capacity * 6) \div 10)

\* Fault variant of Unaffected: the affectedEdges test left out
UnaffectedUnchecked(nearbyEdges, affected) == nearbyEdges

\* nearbyEdges.forEach: the edges that pass !affectedEdges.has(edge.id)
Unaffected(nearbyEdges, affected) == nearbyEdges \ affected

\* the construction branch of applyMarkerImpacts for one marker: the nearby
\* edges not yet affected are reduced; closed are those that drew < 0.05
ConstructionEdges(todo, closed) ==
    [k \in 1..Len(edges) |->
        IF edges[k].id \in todo
        THEN [edges[k] EXCEPT
                !.speed = ReducedSpeed(edges[k].speed, edges[k].id \in closed),
                !.capacity = ReducedCapacity(edges[k].capacity, edges[k].id \in closed)]
        ELSE edges[k]]

\* the same branch in the other run, on the edges of its own simulation
PeerConstructionEdges(todo, closed) ==
    [k \in 1..Len(peerSim.edges) |->
        IF peerSim.edges[k].id \in todo
        THEN [peerSim.edges[k] EXCEPT
                !.speed = ReducedSpeed(peerSim.edges[k].speed,
                                       peerSim.edges[k].id \in closed),
                !.capacity = ReducedCapacity(peerSim.edges[k].capacity,
                                             peerSim.edges[k].id \in closed)]
        ELSE peerSim.edges[k]]

\* the records pushed to constructionLogs, in the order of nearbyEdges
ConstructionRecords(todo, closed) ==
    LET ids == SeqOfSet(todo)
    IN [k \in 1..Len(ids) |->
          [edgeId |-> ids[k],
           originalSpeed |-> EdgeOf(ids[k]).speed,
           reducedSpeed |-> ReducedSpeed(EdgeOf(ids[k]).speed, ids[k] \in closed)]]

\* the facility key `${lng.toFixed(6)},${lat.toFixed(6)}`
FacilityKey(marker) == marker.x

\* calculateFacilityTrafficGeneration
calculateFacilityTrafficGeneration(density) ==
    Min(RoundDiv(density * 4 * 5, 100), FACILITY_CAP)

\* traffic multiplier, in tenths
TrafficMultiplier(level) ==
    CASE level = "SEVERE" -> 13
      [] level = "HIGH" -> 12
      [] level = "MEDIUM" -> 11
      [] OTHER -> 10

\* Fault variant of generateVehicleDemand: the cap of 500 left out
generateVehicleDemandNoCap(population, level) ==
    RoundDiv(population.estimatedVehicles * population.peakHourFactor
                * TrafficMultiplier(level), 1000)

\* generateVehicleDemand
generateVehicleDemand(population, level) ==
    LET rawDemand == RoundDiv(population.estimatedVehicles * population.peakHourFactor
                                 * TrafficMultiplier(level), 1000)
    IN Min(rawDemand, MAX_VEHICLES)

-----------------------------------------------------------------------------
(* The SSE frames of GET /api/simulate/live *)

Frame(type, message) ==
    [type |-> type, message |-> message, timestamp |-> 0, totalVehicles |-> 0,
     vehicles |-> <<>>, segments |-> 0]

\* Fault variant of LiveFrame: the seconds within the minute as timestamp
LiveFrameSeconds(t, activeVehicles, positions, segments) ==
    [type |-> "live_data", message |-> "time", timestamp |-> t % 60,
     totalVehicles |-> activeVehicles, vehicles |-> positions, segments |-> segments]

\* the frame written by the live data callback for sendLiveData's packet
LiveFrame(t, activeVehicles, positions, segments) ==
    [type |-> "live_data", message |-> "time", timestamp |-> t,
     totalVehicles |-> activeVehicles, vehicles |-> positions, segments |-> segments]

\* data.message.includes('complete') of the repository's test, on the
\* messages the handlers send:
\*   "initializing"  "Initializing live simulation..."
\*   "starting"      "Starting vehicle simulation..."
\*   "analysis"      "Generating AI analysis..."
\*   "no markers"    "No markers placed for simulation."
\*   "failed"        "Live simulation failed. Please try again."
\*   "time"          "Time: ..m ..s | Vehicles: .. | Avg Speed: .. km/h"
\* the complete frame carries data and no message
IncludesComplete(message) ==
    CASE message \in {"initializing", "starting", "analysis"} -> FALSE
      [] message \in {"no markers", "failed", "time"} -> FALSE
      [] OTHER -> FALSE

IsTerminal(e) == e.type = "complete" \/ e.type = "error"

LoopInit ==
    [markerIdx |-> 1, facI |-> 0, facN |-> 0, vehicleDemand |-> 0, i |-> 0,
     t |-> 0, maxTime |-> 0, step |-> 0, v |-> 0, currentActiveVehicles |-> 0,
     totalEmissions |-> 0, congestionLength |-> 0, samples |-> 0,
     speedSum |-> 0, speedCount |-> 0]

simVars == <<network, trafficData, populationData, edges, vehicles, routeHeap,
             routeCache, constructionLogs, affectedEdges, affectedEdgesSet,
             processedFacilities, liveDataCallback, simulationTime>>
\* what the caller of the run holds: no step of the live handler or of
\* simulate() writes it
callerVars == <<endpoint, subscribed, delivered, providerCalls, metrics,
                httpResponse, savedResults>>
\* the module state of road-cache.ts and the calls into it, and the other
\* run that was handed the cached NetworkData object
cacheVars == <<cache, now, fetches, callers, peerSim>>
inputVars == <<markers, duration, world, pickMode, callerVars, cacheVars>>

\* the catch block of the handler: one error frame, then res.end()
Catch ==
    /\ events' = Append(events, Frame("error", "failed"))
    /\ resEnded' = TRUE
    /\ pc' = "done"

\* pickFarEdge's loop never ends: the handler makes no further step
Hang == pc' = "hung" /\ UNCHANGED <<events, resEnded>>

\* Fault variant of OrchestratorCatch: the error is thrown on to the caller
OrchestratorRethrow == pc' = "rejected" /\ UNCHANGED <<events, resEnded>>

\* the catch block of runTrafficSimulation: it goes on to runFallbackSimulation
OrchestratorCatch == pc' = "fallback" /\ UNCHANGED <<events, resEnded>>

\* an exception thrown inside simulate() reaches the catch block of its caller
Throw == IF endpoint = "live" THEN Catch ELSE OrchestratorCatch

-----------------------------------------------------------------------------
(* Initial states *)

\* runTrafficSimulation has not returned; res.json has not been called
NoMetrics == [kind |-> "none", fields |-> {}]
NoResponse == [status |-> 0, message |-> "none"]

\* no other run has constructed its simulation
NoPeer == [edges |-> <<>>, affectedEdges |-> {}]

InitCommon ==
    /\ pc = "start"
    /\ events = <<>>
    /\ resEnded = FALSE
    /\ network = <<>>
    /\ trafficData = TrafficAnswer("none")
    /\ populationData = PopulationAnswer("none")
    /\ edges = <<>>
    /\ vehicles = <<>>
    /\ routeHeap = <<>>
    /\ routeCache = <<>>
    /\ constructionLogs = <<>>
    /\ affectedEdges = {}
    /\ affectedEdgesSet = {}
    /\ processedFacilities = {}
    /\ liveDataCallback = FALSE
    /\ simulationTime = 0
    /\ loop = LoopInit
    /\ subscribed = TRUE
    /\ delivered = 0
    /\ providerCalls = 0
    /\ metrics = NoMetrics
    /\ httpResponse = NoResponse
    /\ savedResults = 0
    /\ cache = <<>>
    /\ now = 0
    /\ fetches = 0
    /\ callers = <<>>
    /\ peerSim = NoPeer

Worlds == [net : {"fail", "empty", "netA", "netB", "netC"},
           traffic : {"fallback", "none", "jam"},
           pop : {"none", "one", "small"}]

\* Every marker list and every provider answer is run with one draw per
\* call of Math.random ("first"); the runs that explore every draw ("any")
\* have one construction marker on the ring RoadsA and two vehicles.
Init ==
    /\ InitCommon
    /\ endpoint = "live"
    /\ markers \in MarkerLists
    /\ duration \in Durations
    /\ world \in Worlds
    /\ pickMode \in {"first", "any"}
    /\ pickMode = "any" =>
          /\ Len(markers) = 1 /\ markers[1].type = "construction"
          /\ world.net = "netA" /\ world.pop = "small" /\ world.traffic # "jam"

-----------------------------------------------------------------------------
(* GET /api/simulate/live, up to the construction of the simulation *)

\* Fault variant of LiveStart: the return after the "no markers" error left out
LiveStartNoReturn ==
    /\ pc = "start"
    /\ endpoint = "live"
    /\ events' = IF markers = <<>>
                 THEN events \o <<Frame("error", "no markers"), Frame("status", "initializing")>>
                 ELSE Append(events, Frame("status", "initializing"))
    /\ resEnded' = (markers = <<>>)
    /\ pc' = "fetch"
    /\ UNCHANGED <<inputVars, simVars, loop>>

LiveStart ==
    /\ pc = "start"
    /\ endpoint = "live"
    /\ IF markers = <<>>
       THEN /\ events' = Append(events, Frame("error", "no markers"))
            /\ resEnded' = TRUE
            /\ pc' = "done"
       ELSE /\ events' = Append(events, Frame("status", "initializing"))
            /\ pc' = "fetch"
            /\ UNCHANGED resEnded
    /\ UNCHANGED <<inputVars, simVars, loop>>

\* the three awaited providers, new RealTrafficSimulation, setLiveDataCallback
FetchProviders ==
    /\ pc = "fetch"
    /\ IF world.net = "fail"
       THEN Catch /\ UNCHANGED <<simVars, loop>>
       ELSE /\ network' = NetworkAnswer(world.net)
            /\ trafficData' = TrafficAnswer(world.traffic)
            /\ populationData' = PopulationAnswer(world.pop)
            /\ edges' = buildRoadNetwork(network')
            /\ vehicles' = <<>>
            /\ simulationTime' = 0
            /\ liveDataCallback' = TRUE
            /\ events' = Append(events, Frame("status", "starting"))
            /\ pc' = "markers"
            /\ loop' = [loop EXCEPT !.markerIdx = 1]
            /\ UNCHANGED <<resEnded, routeHeap, routeCache, constructionLogs,
                           affectedEdges, affectedEdgesSet, processedFacilities>>
    /\ UNCHANGED inputVars

-----------------------------------------------------------------------------
(* simulate(): applyMarkerImpacts *)

\* the array a findSimpleRoute outcome returns, and the heap and cache after it
OutcomeRef(o) == IF o.kind = "cached" THEN o.ref ELSE Len(routeHeap) + 1
OutcomeHeap(o) == IF o.kind = "new" THEN Append(routeHeap, o.route) ELSE routeHeap
OutcomeCache(o) ==
    IF o.kind = "new" THEN (o.key :> (Len(routeHeap) + 1)) @@ routeCache ELSE routeCache
OutcomeRoute(o) == IF o.kind = "cached" THEN routeHeap[o.ref] ELSE o.route

\* one iteration of markers.forEach
ApplyMarker ==
    /\ pc = "markers"
    /\ loop.markerIdx <= Len(markers)
    /\ LET marker == markers[loop.markerIdx]
           nearbyEdges == findNearbyEdges(marker.x, 500)
           todo == Unaffected(nearbyEdges, affectedEdges)
           facilityKey == FacilityKey(marker)
           nearbyDemand == calculateFacilityTrafficGeneration(populationData.density)
       IN IF marker.type = "construction"
          THEN \E closed \in SUBSET todo :
                 /\ edges' = ConstructionEdges(todo, closed)
                 /\ constructionLogs' = constructionLogs \o ConstructionRecords(todo, closed)
                 /\ affectedEdges' = affectedEdges \cup todo
                 /\ loop' = [loop EXCEPT !.markerIdx = @ + 1]
                 /\ UNCHANGED <<pc, processedFacilities>>
          ELSE IF facilityKey \in processedFacilities
          THEN /\ loop' = [loop EXCEPT !.markerIdx = @ + 1]
               /\ UNCHANGED <<pc, edges, constructionLogs, affectedEdges, processedFacilities>>
          ELSE IF findNearbyEdges(marker.x, 200) = {} \/ nearbyDemand <= 0
          THEN /\ processedFacilities' = processedFacilities \cup {facilityKey}
               /\ loop' = [loop EXCEPT !.markerIdx = @ + 1]
               /\ UNCHANGED <<pc, edges, constructionLogs, affectedEdges>>
          ELSE /\ pc' = "facility"
               /\ loop' = [loop EXCEPT !.facI = 0, !.facN = nearbyDemand]
               /\ UNCHANGED <<edges, constructionLogs, affectedEdges, processedFacilities>>
    /\ UNCHANGED <<inputVars, events, resEnded, network, trafficData, populationData,
                   vehicles, routeHeap, routeCache, affectedEdgesSet,
                   liveDataCallback, simulationTime>>

\* one iteration of the for loop of addFacilityTraffic
AddFacilityTrip ==
    /\ pc = "facility"
    /\ LET marker == markers[loop.markerIdx]
           nearbyEdges == findNearbyEdges(marker.x, 200)
           last == loop.facI + 1 >= loop.facN
       IN \E outEdge \in Pick(nearbyEdges) :
            IF pickFarEdge(outEdge, 1000) = {}
            THEN Hang /\ UNCHANGED <<vehicles, routeHeap, routeCache, processedFacilities, loop>>
            ELSE \E backEdge \in Pick(pickFarEdge(outEdge, 1000)) :
                 \E o \in Pick(findSimpleRoute(outEdge, backEdge, 0)) :
                 \E departTime \in Pick(DepartTimes) :
                   CASE o.kind = "hang" ->
                          Hang /\ UNCHANGED <<vehicles, routeHeap, routeCache,
                                              processedFacilities, loop>>
                     [] o.kind = "overflow" ->
                          Throw /\ UNCHANGED <<vehicles, routeHeap, routeCache,
                                               processedFacilities, loop>>
                     [] OTHER ->
                          /\ routeHeap' = OutcomeHeap(o)
                          /\ routeCache' = OutcomeCache(o)
                          /\ vehicles' = Append(vehicles,
                                NewVehicle("facility_trip_", loop.facI, OutcomeRef(o), departTime,
                                           Max(Kmh(10), (EdgeOf(outEdge).speed * 6) \div 10),
                                           RouteLength(OutcomeRoute(o))))
                          /\ processedFacilities' =
                                IF last THEN processedFacilities \cup {FacilityKey(marker)}
                                ELSE processedFacilities
                          /\ loop' = [loop EXCEPT !.facI = @ + 1,
                                         !.markerIdx = IF last THEN @ + 1 ELSE @]
                          /\ pc' = IF last THEN "markers" ELSE "facility"
                          /\ UNCHANGED <<events, resEnded>>
    /\ UNCHANGED <<inputVars, network, trafficData, populationData, edges,
                   constructionLogs, affectedEdges, affectedEdgesSet,
                   liveDataCallback, simulationTime>>

\* the end of applyMarkerImpacts, generateVehicleDemand, and the first
\* statement of generateVehicleTrips (this.vehicles = [])
FinishMarkers ==
    /\ pc = "markers"
    /\ loop.markerIdx > Len(markers)
    /\ affectedEdgesSet' = affectedEdges
    /\ vehicles' = <<>>
    /\ loop' = [loop EXCEPT
          !.vehicleDemand = generateVehicleDemand(populationData, trafficData.congestionLevel),
          !.i = 0]
    /\ pc' = "trips"
    /\ UNCHANGED <<inputVars, events, resEnded, network, trafficData, populationData,
                   edges, routeHeap, routeCache, constructionLogs, affectedEdges,
                   processedFacilities, liveDataCallback, simulationTime>>

-----------------------------------------------------------------------------
(* simulate(): generateVehicleTrips *)

\* one iteration of the for loop of generateVehicleTrips
GenerateTrip ==
    /\ pc = "trips"
    /\ loop.i < loop.vehicleDemand
    /\ IF edges = <<>>
       THEN \* originEdge is undefined: pickFarEdge throws a TypeError
            Throw /\ UNCHANGED <<vehicles, routeHeap, routeCache, loop>>
       ELSE \E originEdge \in Pick(EdgeIds) :
            IF pickFarEdge(originEdge, 2000) = {}
            THEN Hang /\ UNCHANGED <<vehicles, routeHeap, routeCache, loop>>
            ELSE \E destEdge \in Pick(pickFarEdge(originEdge, 2000)) :
                 \E o \in Pick(findSimpleRoute(originEdge, destEdge, 0)) :
                 \E departTime \in PickDepart(loop.i) :
                 \E factor \in Pick(SpeedFactors) :
                   CASE o.kind = "hang" ->
                          Hang /\ UNCHANGED <<vehicles, routeHeap, routeCache, loop>>
                     [] o.kind = "overflow" ->
                          Throw /\ UNCHANGED <<vehicles, routeHeap, routeCache, loop>>
                     [] OTHER ->
                          /\ routeHeap' = OutcomeHeap(o)
                          /\ routeCache' = OutcomeCache(o)
                          /\ vehicles' =
                               IF RouteLength(OutcomeRoute(o)) < Metres(200)
                               THEN vehicles
                               ELSE Append(vehicles,
                                      NewVehicle("vehicle_", loop.i, OutcomeRef(o), departTime,
                                                 Max(Kmh(15), (EdgeOf(originEdge).speed * factor) \div 100),
                                                 RouteLength(OutcomeRoute(o))))
                          /\ loop' = [loop EXCEPT !.i = @ + 1]
                          /\ UNCHANGED <<pc, events, resEnded>>
    /\ UNCHANGED <<inputVars, network, trafficData, populationData, edges,
                   constructionLogs, affectedEdges, affectedEdgesSet,
                   processedFacilities, liveDataCallback, simulationTime>>

-----------------------------------------------------------------------------
(* simulate(): runMicrosimulation *)

\* generateVehicleTrips is over; the locals of runMicrosimulation
StartMicrosimulation ==
    /\ pc = "trips"
    /\ loop.i >= loop.vehicleDemand
    /\ loop' = [loop EXCEPT !.t = 0, !.maxTime = duration * 60,
                   !.totalEmissions = 0, !.congestionLength = 0, !.samples = 0,
                   !.speedSum = 0, !.speedCount = 0, !.currentActiveVehicles = 0]
    /\ pc' = "tick"
    /\ UNCHANGED <<inputVars, events, resEnded, simVars>>

\* Fault variant of TickBegin: the loop condition is t <= maxTime
TickBeginInclusive ==
    /\ pc = "tick"
    /\ loop.t <= loop.maxTime
    /\ simulationTime' = loop.t
    /\ LET currentActiveVehicles ==
               Cardinality({ k \in 1..Len(vehicles) : IsActive(vehicles[k], loop.t) })
       IN loop' = [loop EXCEPT
              !.currentActiveVehicles = currentActiveVehicles,
              !.step = IF currentActiveVehicles > STEP_THRESHOLD THEN 1 ELSE 10,
              !.v = 1]
    /\ pc' = "update"
    /\ UNCHANGED <<inputVars, events, resEnded, network, trafficData, populationData,
                   edges, vehicles, routeHeap, routeCache, constructionLogs,
                   affectedEdges, affectedEdgesSet, processedFacilities, liveDataCallback>>

\* the head of one iteration of while (t < maxTime): count, choose the step
TickBegin ==
    /\ pc = "tick"
    /\ loop.t < loop.maxTime
    /\ simulationTime' = loop.t
    /\ LET currentActiveVehicles ==
               Cardinality({ k \in 1..Len(vehicles) : IsActive(vehicles[k], loop.t) })
       IN loop' = [loop EXCEPT
              !.currentActiveVehicles = currentActiveVehicles,
              !.step = IF currentActiveVehicles > STEP_THRESHOLD THEN 1 ELSE 10,
              !.v = 1]
    /\ pc' = "update"
    /\ UNCHANGED <<inputVars, events, resEnded, network, trafficData, populationData,
                   edges, vehicles, routeHeap, routeCache, constructionLogs,
                   affectedEdges, affectedEdgesSet, processedFacilities, liveDataCallback>>

\* one iteration of the second for (const vehicle of this.vehicles)
UpdateStep ==
    /\ pc = "update"
    /\ loop.v <= Len(vehicles)
    /\ IF IsActive(vehicles[loop.v], loop.t)
       THEN LET r == updateVehicle(vehicles, routeHeap, loop.v, loop.t, loop.step)
            IN /\ vehicles' = [vehicles EXCEPT ![loop.v] = r.vehicle]
               /\ routeHeap' = r.heap
               /\ loop' = [loop EXCEPT
                      !.v = @ + 1,
                      !.totalEmissions = IF loop.t % 10 = 0
                                         THEN @ + calculateVehicleEmissions(r.vehicle) ELSE @,
                      !.speedSum = @ + r.vehicle.speed,
                      !.speedCount = @ + 1]
       ELSE /\ loop' = [loop EXCEPT !.v = @ + 1]
            /\ UNCHANGED <<vehicles, routeHeap>>
    /\ UNCHANGED <<inputVars, pc, events, resEnded, network, trafficData, populationData,
                   edges, routeCache, constructionLogs, affectedEdges, affectedEdgesSet,
                   processedFacilities, liveDataCallback, simulationTime>>

\* the tail of the iteration: congestion sample, live snapshot, t += step
TickEnd ==
    /\ pc = "update"
    /\ loop.v > Len(vehicles)
    /\ loop' = [loop EXCEPT
          !.congestionLength = IF loop.t % 300 = 0
                THEN @ + calculateCongestionLength(vehicles, routeHeap, simulationTime) ELSE @,
          !.samples = IF loop.t % 300 = 0 THEN @ + 1 ELSE @,
          !.t = @ + loop.step]
    /\ events' = IF liveDataCallback /\ loop.t % 10 = 0
                 THEN Append(events,
                        LiveFrame(loop.t, loop.currentActiveVehicles,
                                  getActiveVehiclePositions(vehicles, loop.t),
                                  getCongestionSegments(vehicles, routeHeap, simulationTime)))
                 ELSE events
    /\ pc' = "tick"
    /\ UNCHANGED <<inputVars, resEnded, simVars>>

\* the loop is left, calculateMetrics, simulate() returns; the handler
\* sends the analysis status
FinishSimulation ==
    /\ pc = "tick"
    /\ endpoint = "live"
    /\ loop.t >= loop.maxTime
    /\ events' = Append(events, Frame("status", "analysis"))
    /\ pc' = "analysis"
    /\ UNCHANGED <<inputVars, resEnded, simVars, loop>>

\* generateTrafficAnalysis returns (the model's answer or its own fallback:
\* it catches every failure), then send({ type: "complete" })
Analysis ==
    /\ pc = "analysis"
    /\ events' = Append(events, Frame("complete", "response"))
    /\ pc' = "done"
    /\ UNCHANGED <<inputVars, resEnded, simVars, loop>>

-----------------------------------------------------------------------------

Next ==
    \/ LiveStart
    \/ FetchProviders
    \/ ApplyMarker
    \/ AddFacilityTrip
    \/ FinishMarkers
    \/ GenerateTrip
    \/ StartMicrosimulation
    \/ TickBegin
    \/ UpdateStep
    \/ TickEnd
    \/ FinishSimulation
    \/ Analysis

Spec == Init /\ [][Next]_vars

-----------------------------------------------------------------------------
(* Demand generation under a large population: the run up to the first tick *)

InitDemand ==
    /\ InitCommon
    /\ endpoint = "live"
    /\ markers \in MarkerLists
    /\ duration = 1
    /\ world \in [net : {"netA"}, traffic : {"fallback", "none", "jam"}, pop : {"large"}]
    /\ pickMode = "first"

NextDemand ==
    \/ LiveStart
    \/ FetchProviders
    \/ ApplyMarker
    \/ AddFacilityTrip
    \/ FinishMarkers
    \/ GenerateTrip

SpecDemand == InitDemand /\ [][NextDemand]_vars

-----------------------------------------------------------------------------
(* Properties of updateVehicle *)

\* a step of the vehicle loop that calls updateVehicle on vehicles[loop.v]
UpdateCalled ==
    /\ pc = "update" /\ loop.v <= Len(vehicles)
    /\ IsActive(vehicles[loop.v], loop.t)
    /\ loop'.v = loop.v + 1

\* C1: after every call of updateVehicle the vehicle's currentEdgeProgress
\* lies in [0, 0.95], whichever branch (stay on the edge, hand over to the
\* next edge) the call took; no vehicle ever holds a value outside it.
C1_ProgressInRange ==
    \A k \in 1..Len(vehicles) :
        /\ vehicles[k].currentEdgeProgress >= 0
        /\ vehicles[k].currentEdgeProgress <= MaxProgress

\* a vehicle that was moved and whose progress sits on the ceiling
C1_Witness ==
    \E k \in 1..Len(vehicles) :
        /\ vehicles[k].currentEdgeProgress = MaxProgress
        /\ vehicles[k].distanceTraveled > 0

\* C2: distanceTraveled is 0 for a new vehicle, is never negative, and no
\* step of the run makes the distanceTraveled of a vehicle smaller.
C2_DistanceMonotone ==
    [][ /\ \A k \in 1..Len(vehicles') : vehicles'[k].distanceTraveled >= 0
        /\ Len(vehicles') > Len(vehicles) =>
               vehicles'[Len(vehicles')].distanceTraveled = 0
        /\ \A k \in 1..Len(vehicles) :
               (k <= Len(vehicles') /\ vehicles'[k].id = vehicles[k].id) =>
                   vehicles'[k].distanceTraveled >= vehicles[k].distanceTraveled ]_vars

\* a vehicle that has left its first edge behind and moved on the next one
C2_Witness ==
    \E k \in 1..Len(vehicles) :
        /\ vehicles[k].distanceTraveled > Metres(2100)
        /\ vehicles[k].currentEdgeProgress > 0

-----------------------------------------------------------------------------
(* The life cycle of a vehicle *)

\* vehicles[k] is the same vehicle before and after the step
SameVehicle(k) == k <= Len(vehicles') /\ vehicles'[k].id = vehicles[k].id

\* C3: a vehicle only moves forward through SCHEDULED, ACTIVE, ARRIVED.
\* It is treated as active by the loop exactly when departTime <= t and it has
\* not arrived; it has an arrival time exactly when its route has become
\* empty; the arrival time, once written, is never cleared or changed; and
\* an arrived vehicle is never advanced again.
C3_Lifecycle ==
    [][ /\ \A k \in 1..Len(vehicles') :
              (vehicles'[k].arrivalTime # {}) <=> (routeHeap'[vehicles'[k].route] = <<>>)
        /\ \A k \in 1..Len(vehicles) :
              SameVehicle(k) =>
                 /\ vehicles[k].arrivalTime # {} => vehicles'[k] = vehicles[k]
                 /\ vehicles'[k] # vehicles[k] =>
                       /\ pc = "update" /\ loop.v = k
                       /\ vehicles[k].departTime <= loop.t
        /\ (pc = "update" /\ loop.v <= Len(vehicles)) =>
              ( (loop'.speedCount = loop.speedCount + 1) <=>
                (vehicles[loop.v].departTime <= loop.t /\ vehicles[loop.v].arrivalTime = {}) )
      ]_vars

\* a vehicle whose own hand-off emptied its route: it holds an arrival time
C3_Arrived ==
    \E k \in 1..Len(vehicles) :
        vehicles[k].arrivalTime # {} /\ RouteOf(vehicles[k]) = <<>>

\* C4: an active vehicle that is advanced with a speed of at least 5 km/h
\* makes progress in that tick: it leaves its current edge or its
\* currentEdgeProgress grows, so it cannot stay on one edge at 0.95 forever.
C4_ForwardProgress ==
    [][ (UpdateCalled /\ RouteOf(vehicles[loop.v]) # <<>>
           /\ vehicles'[loop.v].speed >= Kmh(5)) =>
          \/ routeHeap'[vehicles[loop.v].route] # RouteOf(vehicles[loop.v])
          \/ vehicles'[loop.v].currentEdgeProgress > vehicles[loop.v].currentEdgeProgress
      ]_vars

-----------------------------------------------------------------------------
(* Facility trips and the size of the vehicle collection *)

\* the phases of simulate() after generateVehicleTrips has started
AfterMarkers == pc \in {"trips", "tick", "update", "analysis"}
InMicrosimulation == pc \in {"tick", "update", "analysis"}

\* a facility marker with an edge within 200 m and a positive vehicle count
FacilityWithTrips ==
    \E i \in 1..Len(markers) :
        /\ markers[i].type = "facility"
        /\ findNearbyEdges(markers[i].x, 200) # {}
        /\ calculateFacilityTrafficGeneration(populationData.density) > 0

\* C5: when simulate() ran with such a facility marker, the collection the
\* microsimulation loop runs over holds a vehicle with the id prefix
\* facility_trip_.
C5_FacilityTripsKept ==
    (InMicrosimulation /\ FacilityWithTrips) =>
        \E k \in 1..Len(vehicles) : vehicles[k].id.prefix = "facility_trip_"

\* the distinct facility markers: facilities are keyed by their coordinates
FacilityKeys ==
    { FacilityKey(markers[i]) : i \in { j \in 1..Len(markers) : markers[j].type = "facility" } }

\* C6: at every point of a run the collection holds at most 500 vehicles
\* plus 100 per distinct facility marker, whatever the population size and
\* the congestion level.
C6_VehicleCap ==
    Len(vehicles) <= MAX_VEHICLES + FACILITY_CAP * Cardinality(FacilityKeys)

\* the demand cap is reached in a run that also processed a facility
C6_Witness ==
    /\ Len(vehicles) = MAX_VEHICLES
    /\ populationData.estimatedVehicles * populationData.peakHourFactor > 100 * MAX_VEHICLES
    /\ processedFacilities # {}

-----------------------------------------------------------------------------
(* Construction impacts *)

C8_OneRecordPerEdge ==
    (AfterMarkers \/ (pc = "done" /\ events[Len(events)].type = "complete")) =>
        /\ Len(constructionLogs) = Cardinality(affectedEdgesSet)
        /\ \A a, b \in 1..Len(constructionLogs) :
              constructionLogs[a].edgeId = constructionLogs[b].edgeId => a = b
        /\ \A a \in 1..Len(constructionLogs) :
              constructionLogs[a].reducedSpeed < constructionLogs[a].originalSpeed

\* a finished run in which an edge lay within 500 m of two construction markers
C8_Witness ==
    /\ pc = "done" /\ events[Len(events)].type = "complete"
    /\ Len(constructionLogs) >= 2
    /\ \E i, j \in 1..Len(markers) :
          /\ i < j
          /\ markers[i].type = "construction" /\ markers[j].type = "construction"
          /\ findNearbyEdges(markers[i].x, 500) \cap findNearbyEdges(markers[j].x, 500) # {}

-----------------------------------------------------------------------------
(* The event stream of GET /api/simulate/live *)

TerminalCount == Cardinality({ i \in 1..Len(events) : IsTerminal(events[i]) })

\* the handler takes no further step: it returned, or it spins in pickFarEdge
NoFurtherStep == pc \in {"done", "hung"}

\* C9: every run emits exactly one terminal event, complete or error and
\* never both: never more than one is sent, and a run that sends nothing
\* more has sent one.
C9_ExactlyOneTerminal ==
    /\ TerminalCount <= 1
    /\ NoFurtherStep => TerminalCount = 1

\* C10: a status event is sent before the first live_data event, and no
\* event of any type follows the complete or the error event.
C10_EventOrder ==
    /\ \A i \in 1..Len(events) :
          events[i].type = "live_data" => \E j \in 1..(i - 1) : events[j].type = "status"
    /\ \A i \in 1..Len(events) : IsTerminal(events[i]) => i = Len(events)

\* a run that streamed snapshots and then completed
C10_Witness ==
    /\ pc = "done"
    /\ events[Len(events)].type = "complete"
    /\ \E i \in 1..Len(events) : events[i].type = "live_data"

-----------------------------------------------------------------------------
(* Runs with more than 100 active vehicles *)

LongDuration == 10

\* A demand of 101 vehicles on RoadsD, or of 131 in severe congestion, for
\* one minute; the ten-minute runs have no construction site and no jam
InitCrowd ==
    /\ InitCommon
    /\ endpoint = "live"
    /\ markers \in {ms \in MarkerLists : Len(ms) <= 1}
    /\ duration \in {1, LongDuration}
    /\ world \in [net : {"netD"}, traffic : {"none", "jam"}, pop : {"crowd"}]
    /\ duration = LongDuration =>
          /\ world.traffic = "none"
          /\ \A k \in 1..Len(markers) : markers[k].type = "facility"
    /\ pickMode = "first"

SpecCrowd == InitCrowd /\ [][Next]_vars

-----------------------------------------------------------------------------
(* The subscriber of GET /api/simulate/live *)

\* the subscriber closes its connection; the handler registers no listener
\* for it and reads no state of the connection
SubscriberDisconnect ==
    /\ endpoint = "live"
    /\ subscribed
    /\ ~resEnded
    /\ subscribed' = FALSE
    /\ UNCHANGED <<pc, markers, duration, world, pickMode, events, resEnded,
                   simVars, loop, endpoint, delivered, providerCalls, metrics,
                   httpResponse, savedResults, cacheVars>>

\* res.write queues a frame on the response; the socket hands the oldest
\* queued frame to the subscriber when the subscriber reads
SocketDeliver ==
    /\ endpoint = "live"
    /\ subscribed
    /\ delivered < Len(events)
    /\ delivered' = delivered + 1
    /\ UNCHANGED <<pc, markers, duration, world, pickMode, events, resEnded,
                   simVars, loop, endpoint, subscribed, providerCalls, metrics,
                   httpResponse, savedResults, cacheVars>>

\* the frames written by send() and not yet read by the subscriber
Pending == SubSeq(events, delivered + 1, Len(events))

InitSubscriber ==
    /\ InitCommon
    /\ endpoint = "live"
    /\ markers \in {ms \in MarkerLists : Len(ms) <= 1}
    /\ duration = 1
    /\ world \in [net : {"fail", "netA"}, traffic : {"none"}, pop : {"small"}]
    /\ pickMode = "first"

NextSubscriber ==
    \/ Next
    \/ SubscriberDisconnect
    \/ SocketDeliver

SpecSubscriber == InitSubscriber /\ [][NextSubscriber]_vars

-----------------------------------------------------------------------------
(* POST /api/simulate and runTrafficSimulation *)

\* (Math.random() - 0.5) * 0.1, in thousandths
Variances == {0 - 50, 0, 49}

FallbackFields == {"driving_distance", "congestion_length", "co2_emissions"}
ResultFields ==
    FallbackFields \cup {"roads_count", "nodes_count", "incidents_count",
                         "vehicle_sample", "affected_edges", "population_summary",
                         "construction_impacts"}

CountType(ms, type) == Cardinality({k \in 1..Len(ms) : ms[k].type = type})

\* runFallbackSimulation: km, tenths of a km, kg
runFallbackSimulation(ms, variance) ==
    LET constructionCount == CountType(ms, "construction")
        facilityCount == CountType(ms, "facility")
    IN [kind |-> "fallback",
        fields |-> FallbackFields,
        driving_distance |->
            RoundDiv((385 + constructionCount * 15 + facilityCount * 8) * (1000 + variance), 1000),
        congestion_length |->
            RoundDiv((8 + constructionCount * 8 + facilityCount * 3) * (1000 + variance), 1000),
        co2_emissions |->
            RoundDiv((72 + constructionCount * 12 + facilityCount * 6) * (1000 + variance), 1000),
        affected_edges |-> 0,
        construction_impacts |-> <<>>]

\* calculateMetrics on runMicrosimulation's final state, and the fields
\* runTrafficSimulation adds to it
calculateMetrics(variance) ==
    [kind |-> "simulated",
     fields |-> ResultFields,
     driving_distance |->
         RoundDiv(SumSeq([k \in 1..Len(vehicles) |-> vehicles[k].distanceTraveled])
                     * (1000 + variance), 36 * 1000 * 1000),
     congestion_length |-> RoundDiv(5 * loop.congestionLength, 36 * 100 * duration),
     co2_emissions |-> RoundDiv(loop.totalEmissions * (1000 + variance), 36 * 1000),
     affected_edges |-> Cardinality(affectedEdgesSet),
     construction_impacts |-> constructionLogs]

\* Fault variant of PostSimulate: the check of markers.length left out
PostSimulateNoCheck ==
    /\ pc = "start"
    /\ endpoint = "post"
    /\ pc' = "run"
    /\ UNCHANGED <<markers, duration, world, pickMode, events, resEnded, simVars,
                   loop, endpoint, subscribed, delivered, providerCalls, metrics,
                   httpResponse, savedResults, cacheVars>>

\* the route handler up to the call of runTrafficSimulation
PostSimulate ==
    /\ pc = "start"
    /\ endpoint = "post"
    /\ IF markers = <<>>
       THEN /\ httpResponse' = [status |-> 400, message |-> "No markers placed for simulation"]
            /\ pc' = "done"
       ELSE /\ pc' = "run"
            /\ UNCHANGED httpResponse
    /\ UNCHANGED <<markers, duration, world, pickMode, events, resEnded, simVars,
                   loop, endpoint, subscribed, delivered, providerCalls, metrics,
                   savedResults, cacheVars>>

\* runTrafficSimulation up to the call of simulate(): the empty check throws
\* inside the try block; Promise.all starts the three providers and rejects
\* when extractRoadNetwork does
RunTrafficSimulation ==
    /\ \/ pc = "run"
       \/ pc = "start" /\ endpoint = "direct"
    /\ IF markers = <<>>
       THEN OrchestratorCatch /\ UNCHANGED <<simVars, loop, providerCalls>>
       ELSE /\ providerCalls' = providerCalls + 3
            /\ IF world.net = "fail"
               THEN OrchestratorCatch /\ UNCHANGED <<simVars, loop>>
               ELSE /\ network' = NetworkAnswer(world.net)
                    /\ trafficData' = TrafficAnswer(world.traffic)
                    /\ populationData' = PopulationAnswer(world.pop)
                    /\ edges' = buildRoadNetwork(network')
                    /\ vehicles' = <<>>
                    /\ simulationTime' = 0
                    /\ pc' = "markers"
                    /\ loop' = [loop EXCEPT !.markerIdx = 1]
                    /\ UNCHANGED <<events, resEnded, routeHeap, routeCache,
                                   constructionLogs, affectedEdges, affectedEdgesSet,
                                   processedFacilities, liveDataCallback>>
    /\ UNCHANGED <<markers, duration, world, pickMode, endpoint, subscribed,
                   delivered, metrics, httpResponse, savedResults, cacheVars>>

\* the catch block returns runFallbackSimulation(markers)
RunFallbackSimulation ==
    /\ pc = "fallback"
    /\ \E variance \in Variances : metrics' = runFallbackSimulation(markers, variance)
    /\ pc' = "returned"
    /\ UNCHANGED <<markers, duration, world, pickMode, events, resEnded, simVars,
                   loop, endpoint, subscribed, delivered, providerCalls,
                   httpResponse, savedResults, cacheVars>>

\* the loop is left, calculateMetrics, simulate() returns and
\* runTrafficSimulation returns the results with the added fields
ReturnResults ==
    /\ pc = "tick"
    /\ endpoint # "live"
    /\ loop.t >= loop.maxTime
    /\ \E variance \in Variances : metrics' = calculateMetrics(variance)
    /\ pc' = "returned"
    /\ UNCHANGED <<markers, duration, world, pickMode, events, resEnded, simVars,
                   loop, endpoint, subscribed, delivered, providerCalls,
                   httpResponse, savedResults, cacheVars>>

\* the route handler after runTrafficSimulation: generateTrafficAnalysis,
\* storage.saveSimulationResult, res.json(response)
Respond ==
    /\ pc = "returned"
    /\ endpoint = "post"
    /\ savedResults' = savedResults + 1
    /\ httpResponse' = [status |-> 200, message |-> "response"]
    /\ pc' = "done"
    /\ UNCHANGED <<markers, duration, world, pickMode, events, resEnded, simVars,
                   loop, endpoint, subscribed, delivered, providerCalls, metrics,
                   cacheVars>>

\* The three entry points: the live handler, the POST handler, and a direct
\* call of runTrafficSimulation
InitServer ==
    /\ InitCommon
    /\ endpoint \in {"live", "post", "direct"}
    /\ markers \in MarkerLists
    /\ duration = 1
    /\ world \in [net : {"fail", "empty", "netA", "netB", "netC"},
                   traffic : {"fallback", "none"}, pop : {"none", "small"}]
    /\ pickMode = "first"

NextServer ==
    \/ Next
    \/ PostSimulate
    \/ RunTrafficSimulation
    \/ RunFallbackSimulation
    \/ ReturnResults
    \/ Respond

SpecServer == InitServer /\ [][NextServer]_vars

-----------------------------------------------------------------------------
(* Two runs on one cached road network *)

\* Another call of runTrafficSimulation for the same area: a cache hit hands
\* it the NetworkData object this run holds (or it is the call that stored
\* the object), and new RealTrafficSimulation builds its edges from it
PeerRun ==
    /\ endpoint # "live"
    /\ world.net # "fail"
    /\ peerSim.edges = <<>>
    /\ peerSim' = [edges |-> buildRoadNetwork(NetworkAnswer(world.net)),
                   affectedEdges |-> {}]
    /\ UNCHANGED <<pc, markers, duration, world, pickMode, events, resEnded,
                   simVars, loop, callerVars, cache, now, fetches, callers>>

\* applyMarkerImpacts of the other run, for one construction marker of its own
PeerApplyMarker ==
    /\ peerSim.edges # <<>>
    /\ \E marker \in { m \in MarkerChoices : m.type = "construction" } :
         LET roads == NetworkAnswer(world.net)
             start(id) == roads[CHOOSE i \in 1..Len(roads) : roads[i].id = id].x
             nearbyEdges == { peerSim.edges[k].id : k \in
                                { j \in 1..Len(peerSim.edges) :
                                    haversineDistance(marker.x,
                                        start(peerSim.edges[j].id)) <= 500 } }
             todo == Unaffected(nearbyEdges, peerSim.affectedEdges)
         IN /\ todo # {}
            /\ \E closed \in SUBSET todo :
                  peerSim' = [edges |-> PeerConstructionEdges(todo, closed),
                              affectedEdges |-> peerSim.affectedEdges \cup todo]
    /\ UNCHANGED <<pc, markers, duration, world, pickMode, events, resEnded,
                   simVars, loop, callerVars, cache, now, fetches, callers>>

\* direct calls of runTrafficSimulation; the other run is made at any moment
InitRuns ==
    /\ InitCommon
    /\ endpoint = "direct"
    /\ markers \in MarkerLists
    /\ duration = 1
    /\ world \in [net : {"fail", "netA", "netC"}, traffic : {"none"},
                   pop : {"none", "small"}]
    /\ pickMode = "first"

NextRuns ==
    \/ RunTrafficSimulation
    \/ ApplyMarker
    \/ AddFacilityTrip
    \/ FinishMarkers
    \/ GenerateTrip
    \/ StartMicrosimulation
    \/ TickBegin
    \/ UpdateStep
    \/ TickEnd
    \/ ReturnResults
    \/ RunFallbackSimulation
    \/ PeerRun
    \/ PeerApplyMarker

SpecRuns == InitRuns /\ [][NextRuns]_vars

-----------------------------------------------------------------------------
(* C11 *)

HasEvent(type) == \E k \in 1..Len(events) : events[k].type = type

\* C11: a terminal event terminates the stream: once the handler has emitted
\* complete, and likewise once it has emitted error, the response of
\* /simulate/live is closed
C11_TerminalCloses ==
    (HasEvent("complete") \/ HasEvent("error")) => resEnded

-----------------------------------------------------------------------------
(* C12 *)

LiveDataWritten ==
    /\ Len(events') > Len(events)
    /\ events'[Len(events')].type = "live_data"

\* C12: once the subscriber of /simulate/live has disconnected, the
\* microsimulation loop stops at the next tick boundary (no further tick
\* begins) and no further live_data event is produced or written
C12_CancellationStopsLoop ==
    [][~subscribed => /\ ~LiveDataWritten
                      /\ pc = "tick" => pc' # "update"]_vars

-----------------------------------------------------------------------------
(* C13 *)

PendingLiveData == Cardinality({k \in 1..Len(Pending) : Pending[k].type = "live_data"})

\* C13: the stream buffers boundedly: at most one live_data snapshot is
\* pending delivery to a slow subscriber at any time
C13_OnePendingSnapshot == PendingLiveData <= 1

-----------------------------------------------------------------------------
(* C14 *)

\* C14: runTrafficSimulation called with an empty marker list fails with
\* empty_input: it returns no metrics object and calls no provider
C14_EmptyInputFails ==
    (endpoint = "direct" /\ markers = <<>>) =>
        metrics = NoMetrics /\ providerCalls = 0

-----------------------------------------------------------------------------
(* C15 *)

EventTypes == {events[k].type : k \in 1..Len(events)}

\* C15: with an empty marker store, POST /simulate answers HTTP 400 with the
\* message "No markers placed for simulation" without running a simulation
\* or saving a result, and GET /simulate/live emits exactly one error event
\* and then closes the stream, with no status, live_data or complete event
C15_NoMarkers ==
    markers = <<>> =>
        /\ endpoint = "post" =>
              /\ pc \in {"start", "done"}
              /\ pc = "done" =>
                    httpResponse = [status |-> 400,
                                    message |-> "No markers placed for simulation"]
              /\ metrics = NoMetrics /\ providerCalls = 0 /\ savedResults = 0
              /\ vehicles = <<>> /\ loop = LoopInit
        /\ endpoint = "live" =>
              /\ pc \in {"start", "done"}
              /\ EventTypes \subseteq {"error"}
              /\ pc = "done" => Len(events) = 1 /\ resEnded
              /\ vehicles = <<>> /\ loop = LoopInit

C15_Witness ==
    /\ markers = <<>>
    /\ pc = "done"
    /\ \/ endpoint = "post" /\ httpResponse.status = 400
       \/ endpoint = "live" /\ Len(events) = 1 /\ resEnded

-----------------------------------------------------------------------------
(* C16 *)

\* the runs in which something throws inside runTrafficSimulation's try
\* block: the road network fetch fails, or the graph has no edge and
\* generateVehicleTrips picks an origin from it
ThrowsInRun ==
    \/ world.net = "fail"
    \/ /\ world.net = "empty"
       /\ generateVehicleDemand(PopulationAnswer(world.pop),
                                TrafficAnswer(world.traffic).congestionLevel) > 0

Returned == pc \in {"returned", "done"}

\* C16: for a non-empty marker list runTrafficSimulation never rejects: when
\* a provider fetch or a step of simulate() throws, it returns the
\* closed-form fallback metrics (driving_distance, congestion_length,
\* co2_emissions), without construction_impacts
C16_NeverRejects ==
    (endpoint # "live" /\ markers # <<>>) =>
        /\ pc # "rejected"
        /\ httpResponse.status \in {0, 200}
        /\ Returned => metrics.kind \in {"simulated", "fallback"}
        /\ (Returned /\ ThrowsInRun) => metrics.kind = "fallback"
        /\ metrics.kind = "fallback" =>
              /\ \E variance \in Variances :
                    metrics = runFallbackSimulation(markers, variance)
              /\ metrics.fields = FallbackFields
              /\ metrics.construction_impacts = <<>>
        /\ metrics.kind = "simulated" => ~ThrowsInRun

\* a throw inside simulate() (no edge to pick an origin from) ended in the
\* fallback metrics
C16_Witness ==
    /\ endpoint # "live" /\ markers # <<>>
    /\ world.net = "empty"
    /\ Returned
    /\ metrics.kind = "fallback"

-----------------------------------------------------------------------------
(* C17 *)

\* the upstream of a provider is unavailable in this run: the Overpass
\* request of extractRoadNetwork fails, or getTrafficData answers with
\* generateFallbackTrafficData
UpstreamFailure == world.net = "fail" \/ world.traffic = "fallback"

\* the run has left the simulation path: runTrafficSimulation is in its
\* catch block or has returned the closed-form estimate, or the live handler
\* has sent error
EstimatorOrError ==
    pc = "fallback" \/ metrics.kind = "fallback" \/ HasEvent("error")

\* C17: each provider absorbs its own upstream failure and returns fallback
\* data, so a run whose graph has edges still proceeds to the
\* microsimulation and never to the closed-form estimator
C17_ProvidersAbsorbFailure ==
    (markers # <<>> /\ UpstreamFailure /\ world.net # "empty") => ~EstimatorOrError

-----------------------------------------------------------------------------
(* C18 *)

ActiveCount(t) == Cardinality({k \in 1..Len(vehicles) : IsActive(vehicles[k], t)})

TickStarts == pc = "tick" /\ pc' = "update"
TickEnds == pc = "update" /\ pc' = "tick"
LoopExits == pc = "tick" /\ pc' \notin {"tick", "update"}

\* C18: the microsimulation loop terminates for every population and
\* duration: every iteration increases t by its step, which is 1 if more
\* than 100 vehicles are active at the start of the tick and 10 otherwise;
\* the loop is left at the first t >= duration * 60, and no iteration and no
\* vehicle update happens at a time t >= duration * 60
C18_LoopTerminates ==
    [][/\ TickStarts =>
            /\ loop.t < duration * 60
            /\ loop'.step = IF ActiveCount(loop.t) > 100 THEN 1 ELSE 10
            /\ loop'.t = loop.t
       /\ UpdateCalled => loop.t < duration * 60 /\ loop'.t = loop.t
       /\ TickEnds =>
            /\ loop.step \in {1, 10}
            /\ loop'.t = loop.t + loop.step
            /\ loop'.t < duration * 60 + loop.step
       /\ LoopExits =>
            /\ loop.t >= duration * 60
            /\ loop.t - loop.step < duration * 60
       /\ pc = "tick" /\ loop.t >= duration * 60 => pc' # "update"]_vars

\* the loop has ended in a run that took steps of 1 s and then of 10 s
C18_Witness ==
    /\ pc = "analysis"
    /\ loop.t >= duration * 60
    /\ loop.step = 10
    /\ loop.t % 10 # 0

-----------------------------------------------------------------------------
(* C19 *)

\* the timestamps of the live_data frames written so far, in order
SnapshotTimes ==
    LET idx == {k \in 1..Len(events) : events[k].type = "live_data"}
    IN [n \in 1..Cardinality(idx) |->
          events[CHOOSE k \in idx : Cardinality({j \in idx : j <= k}) = n].timestamp]

\* C19: with a live subscriber attached a live snapshot is emitted every
\* 10 s of simulated time: at every tick boundary the last 10 simulated
\* seconds hold a snapshot, and consecutive snapshots are at most 10 s
\* apart, whatever the sequence of step sizes
C19_SnapshotEvery10s ==
    /\ (pc = "tick" /\ liveDataCallback /\ loop.t > 0) =>
          \E n \in 1..Len(SnapshotTimes) : SnapshotTimes[n] >= loop.t - 10
    /\ \A n \in 1..(Len(SnapshotTimes) - 1) :
          SnapshotTimes[n + 1] - SnapshotTimes[n] <= 10

-----------------------------------------------------------------------------
(* C20 *)

LoopLeft == pc = "analysis" \/ (pc = "tick" /\ loop.t >= duration * 60)

\* C20: the reported congestion_length is the mean of the periodic samples:
\* in a run whose duration is a multiple of 5 minutes the loop has taken
\* exactly duration / 5 congestion samples when it ends, one per 300 s of
\* simulated time, whatever the sequence of step sizes
C20_SampleCount ==
    (LoopLeft /\ duration % 5 = 0) => loop.samples = duration \div 5

-----------------------------------------------------------------------------
(* C21 *)

\* C21: pickFarEdge has bounded retries: for every non-empty graph and
\* every origin it returns an edge, for both distances it is called with,
\* and no call of it runs forever
C21_PickFarEdgeReturns ==
    /\ edges # <<>> =>
          \A origin \in EdgeIds :
              pickFarEdge(origin, 2000) # {} /\ pickFarEdge(origin, 1000) # {}
    /\ pc # "hung"

-----------------------------------------------------------------------------
(* C22 *)

LiveTimestamps == {events[k].timestamp : k \in {j \in 1..Len(events) : events[j].type = "live_data"}}

\* C22: within one stream the timestamps of successive live_data events are
\* non-decreasing: a live_data frame is written with a timestamp that is at
\* least that of every live_data frame written before it
C22_TimestampsMonotone ==
    [][LiveDataWritten =>
          \A ts \in LiveTimestamps : events'[Len(events')].timestamp >= ts]_vars

\* a stream in which snapshots of different simulated times were written
C22_Witness ==
    /\ Cardinality(LiveTimestamps) >= 2
    /\ events[Len(events)].type = "live_data"

-----------------------------------------------------------------------------
(* C23 *)

\* C23: every successful /simulate/live run delivers an event of type status
\* whose message contains the text 'complete': when the run has sent its
\* last frame the stream holds such an event
C23_StatusComplete ==
    HasEvent("complete") =>
        \E k \in 1..Len(events) :
            events[k].type = "status" /\ IncludesComplete(events[k].message)

-----------------------------------------------------------------------------
\* road-cache.ts: the road network cache in front of the OSM provider.
\* Coordinates are in 1/100000 degree, the clock in minutes.

TTL == 10
MaxCalls == 3
MaxClock == 12

\* Number.prototype.toFixed(4) of a positive coordinate: the value rounded to
\* 1/10000 degree
toFixed4(x) == RoundDiv(x, 10)

generateCacheKey(lat, lng, radius) == <<toFixed4(lat), toFixed4(lng), radius>>

isExpiredInclusive(entry) == now - entry.timestamp >= TTL

isExpired(entry) == now - entry.timestamp > TTL

\* the coordinates the callers ask for: two of the latitudes differ only
\* beyond the fourth decimal
Lats == {3568950, 3568953, 3568958}
Lngs == {13969170}
Radii == {3}

\* extractRoadNetworkCached up to its return or its await: a live entry is
\* returned at once, otherwise fetchFromOSM is called and the caller waits
CacheLookup ==
    /\ Len(callers) < MaxCalls
    /\ \E lat \in Lats, lng \in Lngs, radius \in Radii :
         LET key == generateCacheKey(lat, lng, radius)
         IN IF key \in DOMAIN cache /\ ~isExpired(cache[key])
            THEN /\ callers' = Append(callers, [key |-> key, state |-> "hit",
                                                result |-> cache[key].data])
                 /\ UNCHANGED fetches
            ELSE /\ fetches' = fetches + 1
                 /\ callers' = Append(callers, [key |-> key, state |-> "fetching",
                                                result |-> fetches + 1])
    /\ UNCHANGED <<cache, now, peerSim>>
    /\ UNCHANGED <<pc, markers, duration, world, pickMode, events, resEnded,
                   simVars, loop, callerVars>>

\* fetchFromOSM resolves: cache.set(key, { data, timestamp: Date.now() })
FetchReturns(c) ==
    /\ callers[c].state = "fetching"
    /\ cache' = (callers[c].key :> [timestamp |-> now, data |-> callers[c].result])
                    @@ cache
    /\ callers' = [callers EXCEPT ![c].state = "stored"]
    /\ UNCHANGED <<now, fetches, peerSim>>
    /\ UNCHANGED <<pc, markers, duration, world, pickMode, events, resEnded,
                   simVars, loop, callerVars>>

\* fetchFromOSM rejects: the rejection leaves extractRoadNetworkCached before
\* cache.set
FetchFails(c) ==
    /\ callers[c].state = "fetching"
    /\ callers' = [callers EXCEPT ![c].state = "failed", ![c].result = 0]
    /\ UNCHANGED <<cache, now, fetches, peerSim>>
    /\ UNCHANGED <<pc, markers, duration, world, pickMode, events, resEnded,
                   simVars, loop, callerVars>>

\* a minute passes
ClockAdvance ==
    /\ now < MaxClock
    /\ now' = now + 1
    /\ UNCHANGED <<cache, fetches, callers, peerSim>>
    /\ UNCHANGED <<pc, markers, duration, world, pickMode, events, resEnded,
                   simVars, loop, callerVars>>

InitCache ==
    /\ InitCommon
    /\ endpoint = "direct"
    /\ markers = <<>>
    /\ duration = 1
    /\ world = [net |-> "netA", traffic |-> "none", pop |-> "none"]
    /\ pickMode = "first"

NextCache ==
    \/ CacheLookup
    \/ \E c \in 1..Len(callers) : FetchReturns(c)
    \/ \E c \in 1..Len(callers) : FetchFails(c)
    \/ ClockAdvance

SpecCache == InitCache /\ [][NextCache]_vars

-----------------------------------------------------------------------------
\* C24: a call is answered from the cache, without an upstream fetch, exactly
\* when an entry exists under its key (latitude and longitude to four
\* decimals, radius) and is at most 10 minutes old; otherwise one upstream
\* fetch is issued.  A fetched result is stored under the key with the
\* current time, replacing the entry that was there, and a failed fetch
\* leaves the cache as it was.

CallStarts == Len(callers') = Len(callers) + 1
NewCall == callers'[Len(callers')]
FreshEntry(key) == key \in DOMAIN cache /\ now - cache[key].timestamp <= 10

C24_CacheServesFresh ==
    [][/\ CallStarts =>
            /\ cache' = cache
            /\ IF FreshEntry(NewCall.key)
               THEN /\ NewCall.state = "hit"
                    /\ NewCall.result = cache[NewCall.key].data
                    /\ fetches' = fetches
               ELSE /\ NewCall.state = "fetching"
                    /\ fetches' = fetches + 1
       /\ \A c \in 1..Len(callers) :
            /\ (callers[c].state = "fetching" /\ callers'[c].state = "stored") =>
                  /\ DOMAIN cache' = DOMAIN cache \cup {callers[c].key}
                  /\ cache'[callers[c].key] =
                        [timestamp |-> now, data |-> callers'[c].result]
                  /\ \A k \in DOMAIN cache \ {callers[c].key} : cache'[k] = cache[k]
            /\ (callers[c].state = "fetching" /\ callers'[c].state = "failed") =>
                  cache' = cache]_vars

\* A call was answered from an entry exactly 10 minutes old, another call
\* replaced an entry, and a fetch failed.
C24_Witness ==
    /\ \E c \in 1..Len(callers) :
          /\ callers[c].state = "hit"
          /\ callers[c].key \in DOMAIN cache
          /\ cache[callers[c].key].data = callers[c].result
          /\ now - cache[callers[c].key].timestamp = 10
    /\ \E c \in 1..Len(callers) : callers[c].state = "failed"

-----------------------------------------------------------------------------
(* C25 *)

\* the frame an action has just written
Written == events'[Len(events')]

\* departed and not arrived at time t, in the state after the step
ActiveAfter(k, t) == vehicles'[k].departTime <= t /\ vehicles'[k].arrivalTime = {}

\* C25: every live snapshot carries at most 50 vehicle positions and at
\* most 20 congestion segments, every vehicle in it is active at the
\* snapshot time, and total_vehicles is the uncapped number of vehicles
\* active at that time
C25_SnapshotContents ==
    [][LiveDataWritten =>
          /\ Len(Written.vehicles) <= 50
          /\ Written.segments <= 20
          /\ \A n \in 1..Len(Written.vehicles) :
                \E k \in 1..Len(vehicles') :
                    /\ vehicles'[k].id = Written.vehicles[n]
                    /\ ActiveAfter(k, Written.timestamp)
          /\ Written.totalVehicles =
                Cardinality({k \in 1..Len(vehicles') : ActiveAfter(k, Written.timestamp)})
          /\ Len(Written.vehicles) <= Min(50, Written.totalVehicles)]_vars

-----------------------------------------------------------------------------
(* Runs with more vehicles than a live snapshot lists *)

\* A demand of 52 vehicles for one minute, the first of them departing
\* after the others; on RoadsD the trips have one route of 41 edges, on
\* RoadsE no walk reaches the minimum length
InitSample ==
    /\ InitCommon
    /\ endpoint = "live"
    /\ markers \in {ms \in MarkerLists : Len(ms) = 1}
    /\ duration = 1
    /\ world \in [net : {"netA", "netC", "netD", "netE", "netG"},
                 traffic : {"none", "fallback"},
                 pop : {"sample"}]
    /\ pickMode \in {"first", "stagger"}

SpecSample == InitSample /\ [][Next]_vars

-----------------------------------------------------------------------------
(* C26 *)

\* the latest live snapshot written so far
HasSnapshot == \E k \in 1..Len(events) : events[k].type = "live_data"
LastSnapshot ==
    events[CHOOSE k \in 1..Len(events) :
              /\ events[k].type = "live_data"
              /\ \A j \in (k + 1)..Len(events) : events[j].type # "live_data"]

Listed(frame) == {frame.vehicles[n] : n \in 1..Len(frame.vehicles)}

\* the vehicle is on its way at time t in the state after the step: departed,
\* not arrived, and with edges left to drive
StillActive(k, t) ==
    /\ ActiveAfter(k, t)
    /\ routeHeap'[vehicles'[k].route] # <<>>

\* C26: the live sample is stable across adjacent snapshots: a vehicle
\* listed in one snapshot and still active at the next snapshot is listed
\* in the next snapshot too
C26_StableSample ==
    [][(LiveDataWritten /\ HasSnapshot) =>
          \A k \in 1..Len(vehicles') :
              (vehicles'[k].id \in Listed(LastSnapshot) /\ StillActive(k, Written.timestamp))
                  => vehicles'[k].id \in Listed(Written)]_vars

-----------------------------------------------------------------------------
(* C27 *)

\* departed at time t, with edges left to drive
OnRoute(k, t) == vehicles[k].departTime <= t /\ RouteOf(vehicles[k]) # <<>>

\* C27: a vehicle is retired as soon as its route is exhausted: at every
\* tick the vehicles counted as active, and then advanced, are exactly those
\* with depart_time <= t and a non-empty route, whatever the arrival time,
\* an arrival at t = 0 included
C27_ActiveIffOnRoute ==
    [][/\ TickStarts =>
            /\ \A k \in 1..Len(vehicles) :
                  IsActive(vehicles[k], loop.t) <=> OnRoute(k, loop.t)
            /\ loop'.currentActiveVehicles =
                  Cardinality({k \in 1..Len(vehicles) : OnRoute(k, loop.t)})
       /\ (pc = "update" /\ loop.v <= Len(vehicles)) =>
            (vehicles'[loop.v] # vehicles[loop.v] => OnRoute(loop.v, loop.t))]_vars

-----------------------------------------------------------------------------
(* C28 *)

IsSuffix(s, t) == Len(s) <= Len(t) /\ s = SubSeq(t, Len(t) - Len(s) + 1, Len(t))

\* C28: a vehicle is never re-routed: while it is in this.vehicles it keeps
\* its route array, every step
\* leaves of that array a suffix of what it was (so at every tick it is a
\* suffix of the route the vehicle was created with), and one call of
\* updateVehicle removes at most one edge, the head, from it, however far
\* the distance of the step goes beyond the next edge
C28_NeverRerouted ==
    [][/\ \A k \in 1..Min(Len(vehicles), Len(vehicles')) :
             /\ vehicles'[k].id = vehicles[k].id
             /\ vehicles'[k].route = vehicles[k].route
             /\ IsSuffix(routeHeap'[vehicles'[k].route], RouteOf(vehicles[k]))
       /\ UpdateCalled =>
             /\ RouteOf(vehicles[loop.v]) # <<>> =>
                   routeHeap'[vehicles[loop.v].route] \in
                       {RouteOf(vehicles[loop.v]), Tail(RouteOf(vehicles[loop.v]))}
             /\ \A r \in 1..Len(routeHeap) :
                   r # vehicles[loop.v].route => routeHeap'[r] = routeHeap[r]]_vars

LongestEdge == CHOOSE l \in {edges[k].length : k \in 1..Len(edges)} :
                  \A k \in 1..Len(edges) : edges[k].length <= l

\* The vehicle updated last is active, has edges left, and the distance of
\* its step is at least the longest edge plus the whole edge it is on now:
\* the step went beyond the edge after the one it left.
C28_Witness ==
    /\ pc = "update"
    /\ loop.v > 1 /\ loop.v - 1 <= Len(vehicles)
    /\ edges # <<>>
    /\ LET v == vehicles[loop.v - 1]
       IN /\ IsActive(v, loop.t)
          /\ RouteOf(v) # <<>>
          /\ Head(RouteOf(v)) \in EdgeIds
          /\ v.currentEdgeProgress = MaxProgress
          /\ v.speed * loop.step >= LongestEdge + EdgeOf(Head(RouteOf(v))).length

-----------------------------------------------------------------------------
(* C29 *)

\* the target speed updateVehicle computes for vehicles[k] at time t
TargetOf(k, t) ==
    LET edge == EdgeOf(Head(RouteOf(vehicles[k])))
    IN TargetSpeed(edge, CountOnEdge(vehicles, routeHeap, edge.id, t))

HasTarget(k) == RouteOf(vehicles[k]) # <<>> /\ Head(RouteOf(vehicles[k])) \in EdgeIds

\* C29: after every call of updateVehicle on an active vehicle its speed is
\* >= 0, and >= 5 km/h whenever the target speed computed in the call is
\* positive, whatever the speed before, the edge speed, the flow speed and
\* the utilization of the edge
C29_AntiStall ==
    [][UpdateCalled =>
          /\ vehicles'[loop.v].speed >= 0
          /\ (HasTarget(loop.v) /\ TargetOf(loop.v, loop.t) > 0) =>
                vehicles'[loop.v].speed >= Kmh(5)]_vars

\* The vehicle updated last drives at exactly 5 km/h on an edge whose target
\* speed is positive and below 5 km/h: smoothing towards that target gives
\* less than 5 km/h, and the call has snapped the speed up.
C29_Witness ==
    /\ pc = "update"
    /\ loop.v > 1 /\ loop.v - 1 <= Len(vehicles)
    /\ IsActive(vehicles[loop.v - 1], loop.t)
    /\ HasTarget(loop.v - 1)
    /\ vehicles[loop.v - 1].speed = Kmh(5)
    /\ vehicles[loop.v - 1].distanceTraveled > 0
    /\ TargetOf(loop.v - 1, loop.t) > 0
    /\ TargetOf(loop.v - 1, loop.t) < Kmh(5)

-----------------------------------------------------------------------------
(* C30 *)

\* the findSimpleRoute calls generateVehicleTrips can make in this state
TripRoutes ==
    UNION { UNION { findSimpleRoute(originEdge, destEdge, 0) :
                      destEdge \in pickFarEdge(originEdge, 2000) } :
              originEdge \in EdgeIds }

\* C30: findSimpleRoute retries at most once: a top-level call makes at most
\* one swapped (dest, origin) invocation and then returns, so no outcome of a
\* call takes more than 2 nested invocations, on every graph and for every
\* sequence of draws, and no call exhausts the stack
C30_RetriesAtMostOnce ==
    (pc = "trips" /\ loop.i < loop.vehicleDemand) =>
        \A o \in TripRoutes : o.calls <= 2 /\ o.kind # "overflow"

-----------------------------------------------------------------------------
(* Route construction under every draw: the run up to the first tick *)

InitRoutes ==
    /\ InitCommon
    /\ endpoint = "live"
    /\ markers \in {ms \in MarkerLists : Len(ms) = 1}
    /\ duration = 1
    /\ world \in [net : {"netA", "netF"}, traffic : {"none"}, pop : {"small"}]
    /\ pickMode = "any"

SpecRoutes == InitRoutes /\ [][NextDemand]_vars

-----------------------------------------------------------------------------
(* C31 *)

\* C31: route memoization: when findSimpleRoute(origin, dest) returns a
\* route, the route cache holds that route under the key origin->dest, and a
\* call for a pair that has an entry returns the array of the entry and
\* nothing else
C31_RouteMemoized ==
    (pc = "trips" /\ loop.i < loop.vehicleDemand) =>
        \A originEdge \in EdgeIds :
        \A destEdge \in pickFarEdge(originEdge, 2000) :
            LET pair == <<originEdge, destEdge>>
                outcomes == findSimpleRoute(originEdge, destEdge, 0)
            IN /\ \A o \in outcomes :
                     o.kind \in {"new", "cached"} =>
                        /\ pair \in DOMAIN OutcomeCache(o)
                        /\ OutcomeHeap(o)[OutcomeCache(o)[pair]] = OutcomeRoute(o)
               /\ pair \in DOMAIN routeCache =>
                     \A o \in outcomes : o.kind = "cached" /\ o.ref = routeCache[pair]

-----------------------------------------------------------------------------
(* C32 *)

\* the run has markers and its road graph has no edges after ingestion
GraphEmpty == markers # <<>> /\ world.net = "empty"

\* C32: a road graph without edges is fatal for the run, whatever the
\* population: the microsimulation loop is not entered, the live endpoint
\* sends no complete event and ends with an error event, and the
\* orchestrator returns the closed-form fallback metrics
C32_EmptyGraphFatal ==
    GraphEmpty =>
        /\ pc \notin {"tick", "update", "analysis"}
        /\ ~HasEvent("complete")
        /\ (endpoint = "live" /\ pc = "done") => HasEvent("error")
        /\ metrics.kind \in {"none", "fallback"}

-----------------------------------------------------------------------------
(* C33 *)

\* C33: route identity is per vehicle: a call of updateVehicle on one
\* vehicle leaves the route of every other vehicle and the route under
\* every key of the route cache as they were, also when two vehicles were
\* created for the same (origin, dest) pair
C33_RoutePerVehicle ==
    [][UpdateCalled =>
          /\ \A k \in 1..Len(vehicles) :
                k # loop.v => routeHeap'[vehicles'[k].route] = RouteOf(vehicles[k])
          /\ \A key \in DOMAIN routeCache :
                /\ key \in DOMAIN routeCache'
                /\ routeHeap'[routeCache'[key]] = routeHeap[routeCache[key]]]_vars

-----------------------------------------------------------------------------
(* C34 *)

\* the length of the edges vehicles[k] has left behind, and the distance its
\* progress stands for on the edge it is on
RemovedLength(k) == vehicles[k].totalRouteLength - RouteLength(RouteOf(vehicles[k]))
OnEdgeLength(k) ==
    IF RouteOf(vehicles[k]) = <<>> THEN 0
    ELSE (vehicles[k].currentEdgeProgress * EdgeOf(Head(RouteOf(vehicles[k]))).length)
            \div ProgressScale

\* the rounding of the progress values, at most 1/10000 of an edge per call
Rounding == Metres(10)

\* C34: at every tick, for every vehicle, distanceTraveled is the length of
\* the edges removed from its route plus currentEdgeProgress times the
\* length of its current edge; it never exceeds totalRouteLength and equals
\* it when the vehicle has arrived
C34_DistanceAccounting ==
    pc = "tick" =>
        \A k \in 1..Len(vehicles) :
            /\ Abs(vehicles[k].distanceTraveled - (RemovedLength(k) + OnEdgeLength(k)))
                  <= Rounding
            /\ vehicles[k].distanceTraveled <= vehicles[k].totalRouteLength + Rounding
            /\ vehicles[k].arrivalTime # {} =>
                  Abs(vehicles[k].distanceTraveled - vehicles[k].totalRouteLength) <= Rounding

-----------------------------------------------------------------------------
(* C35 *)

\* C35: the two utilization formulas agree on what is congested: for every
\* edge with capacity > 0 and every count n of active vehicles on it,
\* n / max(1, capacity / 3600) > 0.7 (speed adaptation) holds if and only if
\* n / (capacity / 3600) > 0.7 (congestion length) holds
C35_UtilizationsAgree ==
    \A k \in 1..Len(edges) :
        edges[k].capacity > 0 =>
            \A n \in 0..Len(vehicles) :
                UtilizationAbove(n, edges[k].capacity, 7, 10)
                    <=> CongestedForLength(n, edges[k].capacity)

\* Both formulas have been applied in a run with an edge of more than 3600
\* vehicles per hour on which one vehicle is not congested and two are, and
\* with an edge of less than 3600 on which one vehicle is.
C35_Witness ==
    /\ pc = "tick" /\ loop.t > 0 /\ loop.samples > 0
    /\ Len(vehicles) >= 2
    /\ \E k \in 1..Len(edges) :
          /\ edges[k].capacity > 3600
          /\ ~CongestedForLength(1, edges[k].capacity)
          /\ UtilizationAbove(2, edges[k].capacity, 7, 10)
    /\ \E k \in 1..Len(edges) :
          /\ edges[k].capacity > 0 /\ edges[k].capacity < 3600
          /\ UtilizationAbove(1, edges[k].capacity, 7, 10)

-----------------------------------------------------------------------------
(* C36 *)

\* the road of the fetched network an edge was built from
RoadOfEdge(e) ==
    LET roads == NetworkAnswer(world.net)
    IN roads[CHOOSE i \in 1..Len(roads) : roads[i].id = e.id]
\* the edge has the speed and capacity buildRoadNetwork gives it
AsBuilt(e) ==
    /\ e.speed = Kmh(getFreeFlowSpeed(RoadOfEdge(e).highway))
    /\ e.capacity = getRoadCapacity(RoadOfEdge(e).highway) * RoadOfEdge(e).lanes

\* C36: two runs that were handed the same cached road-network object are
\* isolated: each run starts from the speeds and capacities of the fetched
\* roads, and an edge of a run is reduced only by that run's own
\* construction markers, whatever the other run has applied before or
\* meanwhile.
C36_RunsIsolated ==
    /\ (pc = "markers" /\ loop.markerIdx = 1) =>
          \A k \in 1..Len(edges) : AsBuilt(edges[k])
    /\ \A k \in 1..Len(edges) :
          edges[k].id \notin affectedEdges => AsBuilt(edges[k])
    /\ \A k \in 1..Len(peerSim.edges) :
          peerSim.edges[k].id \notin peerSim.affectedEdges => AsBuilt(peerSim.edges[k])

\* this run is about to apply its markers on edges the other run has reduced
\* in its own simulation, and the other run keeps edges this run has yet to
\* reduce
C36_Witness ==
    /\ pc = "markers" /\ loop.markerIdx = 1
    /\ markers[1].type = "construction"
    /\ \E k \in 1..Len(edges) :
          /\ edges[k].id \in findNearbyEdges(markers[1].x, 500)
          /\ edges[k].id \in peerSim.affectedEdges
          /\ ~AsBuilt(peerSim.edges[k])
          /\ AsBuilt(edges[k])

-----------------------------------------------------------------------------
(* C37 *)

\* the calls of extractRoadNetworkCached that missed and wait for their fetch
Waiting == { c \in 1..Len(callers) : callers[c].state = "fetching" }

\* C37: for any key, calls of extractRoadNetworkCached that miss the cache
\* while a fetch for that key is in flight cause no second upstream fetch:
\* all the waiting callers of one key wait for, and receive, the result of
\* one fetchFromOSM call.
C37_SingleFetchPerKey ==
    \A c1 \in Waiting : \A c2 \in Waiting :
        callers[c1].key = callers[c2].key => callers[c1].result = callers[c2].result

-----------------------------------------------------------------------------
(* C38 *)

\* the vehicles and route arrays after the second for loop of one tick has
\* visited the vehicles in the given order
RECURSIVE AdvanceIn(_, _, _)
AdvanceIn(vs, heap, order) ==
    IF order = <<>> THEN [vehicles |-> vs, heap |-> heap]
    ELSE LET k == Head(order)
             r == updateVehicle(vs, heap, k, loop.t, loop.step)
         IN IF IsActive(vs[k], loop.t)
            THEN AdvanceIn([vs EXCEPT ![k] = r.vehicle], r.heap, Tail(order))
            ELSE AdvanceIn(vs, heap, Tail(order))

ArrayOrder == [k \in 1..Len(vehicles) |-> k]
ReverseOrder == [k \in 1..Len(vehicles) |-> Len(vehicles) + 1 - k]

\* speed, progress, route and arrival time of vehicle k in an outcome
Advanced(out, k) ==
    [speed |-> out.vehicles[k].speed,
     currentEdgeProgress |-> out.vehicles[k].currentEdgeProgress,
     route |-> out.heap[out.vehicles[k].route],
     arrivalTime |-> out.vehicles[k].arrivalTime]

\* C38: a tick is independent of the order in which the vehicles are
\* advanced: from the state at the head of a tick, advancing the active
\* vehicles in array order and in the reverse order gives every vehicle the
\* same speed, progress, route and arrival time.
C38_OrderIndependent ==
    (pc = "update" /\ loop.v = 1) =>
        \A k \in 1..Len(vehicles) :
            Advanced(AdvanceIn(vehicles, routeHeap, ArrayOrder), k)
                = Advanced(AdvanceIn(vehicles, routeHeap, ReverseOrder), k)

=============================================================================
